---- MODULE Spec2Model ----
(***************************************************************************)
(* OpenNotebookLM backend: the cache layer (app/services/cache.py), the    *)
(* RAG query path with its query-result cache (app/services/rag.py), the   *)
(* project/document CRUD operations that change what a query sees, and the *)
(* batch path of the embedding service (app/services/embeddings.py).       *)
(*                                                                         *)
(* Text is a sequence of one-character strings, so that joining,           *)
(* prefixing and glob matching are computed character by character.        *)
(* Python values are tagged pairs <<type, body>>.                          *)
(***************************************************************************)
EXTENDS Bags, FiniteSets, Integers, Sequences, TLC

VARIABLES
    \* CacheService fields
    cache_backend,      \* "redis" when self.cache_backend is a client, "none" when None
    in_memory_cache,    \* dict key -> value
    cache_stats,        \* hits / misses / sets / deletes
    timers,             \* bag of running delete_after_timeout threads [key, remaining]
    \* the Redis server the client talks to
    redis_up,           \* reachable or not
    redis_store,        \* key -> [data, ttl]; ttl = 0 is "no expiry"
    \* observation of the calls made on the cache service
    written,            \* key -> [value, ttl, age] of the latest set not followed by delete/clear
    last,               \* the latest completed call and what it returned
    nOps,               \* number of calls made so far
    \* worker threads calling get / set / delete on the in-process map
    tpc,                \* thread -> the statement it is about to execute
    tcall,              \* thread -> the call it is in: [op, key, value]
    ttmp,               \* thread -> the counter value it has read for its +=
    completed,          \* calls that have returned: gets / sets / deletes, per thread count
    writes,             \* key -> the values passed to set so far
    \* database rows
    projects,           \* project id -> [name]
    documents,          \* ids of the documents (each with its chunks and embeddings)
    project_documents,  \* the ProjectDocument links <<project_id, document_id>>
    conversations,      \* conversation id -> [project_id, messages]
    contents,           \* document id -> Document.content
    tables,             \* the committed rows: [chunks, embeddings]
    session,            \* the same tables as the open transaction of the Session sees them
    foreign_keys,       \* whether the database enforces FOREIGN KEY constraints
    next_id,            \* how many ids uuid4 has handed out for chunks and embeddings
    returned,           \* document id -> the chunk sets that runs of chunk_document returned
    status,             \* document id -> Document.status
    task,               \* document id -> the background task of its ingestion
    \* observation of the query cache
    computed_for,       \* query-cache key -> the request whose response was written there
    stale               \* query-cache keys whose project changed after they were written

cacheVars == <<cache_backend, in_memory_cache, cache_stats, timers, redis_up, redis_store>>
obsVars == <<written, last, nOps>>
threadVars == <<tpc, tcall, ttmp, completed, writes>>
ingestVars == <<contents, tables, session, foreign_keys, next_id, returned, status, task>>
dbVars == <<projects, documents, project_documents, conversations, ingestVars>>
queryObsVars == <<computed_for, stale>>
vars == <<cacheVars, obsVars, threadVars, dbVars, queryObsVars>>

\* what the callers of the cache service and its threads leave alone
nonCacheVars == <<threadVars, dbVars, queryObsVars>>
\* what the worker threads leave alone
nonThreadVars == <<cache_backend, timers, redis_up, redis_store, obsVars, dbVars, queryObsVars>>

-----------------------------------------------------------------------------
(* Bounds *)

MaxOps == 3             \* cache-service calls in one behaviour
MaxThreadCalls == 2     \* calls each worker thread makes

-----------------------------------------------------------------------------
(* Program constants *)

QUERY_TTL == 3600       \* rag.py: cache_query_result(..., ttl=3600)
EMBEDDING_TTL == 7200   \* embeddings.py: cache_embedding(..., ttl=7200)

\* Time advances in steps of one hour; every TTL the program uses is a multiple.
TickUnit == QUERY_TTL
MaxAge == EMBEDDING_TTL

Min(a, b) == IF a < b THEN a ELSE b
Max(a, b) == IF a > b THEN a ELSE b
Range(s) == {s[i] : i \in 1..Len(s)}

\* F applied to the value of e, computed once
Bind(e, F(_)) == CHOOSE y \in {F(x) : x \in {e}} : TRUE

-----------------------------------------------------------------------------
(* Python values *)

PyNone == <<"NoneType", <<>>>>
PyStr(s) == <<"str", s>>
PyInt(n) == <<"int", n>>
PyFloat(n) == <<"float", n>>
PyBool(b) == <<"bool", b>>
PyList(items) == <<"list", items>>
PyTuple(items) == <<"tuple", items>>
PyDict(items) == <<"dict", items>>        \* items: sequence of <<key, value>>
NdArray(items) == <<"ndarray", items>>    \* items: the float32 components
TypeOf(v) == v[1]
Body(v) == v[2]

DigitChar(d) == <<"0", "1", "2", "3", "4", "5", "6", "7", "8", "9">>[d + 1]

\* str(n) for a non-negative int, as text
RECURSIVE StrInt(_)
StrInt(n) == IF n < 10 THEN <<DigitChar(n)>> ELSE StrInt(n \div 10) \o <<DigitChar(n % 10)>>

\* the same digits as one string token
RECURSIVE Concat(_)
Concat(chars) ==
    IF chars = <<>> THEN ""
    ELSE IF Len(chars) = 1 THEN chars[1]
    ELSE Concat(SubSeq(chars, 1, Len(chars) \div 2))
         \o Concat(SubSeq(chars, Len(chars) \div 2 + 1, Len(chars)))

-----------------------------------------------------------------------------
(* json.dumps / json.loads on the JSON data model *)

IsScalar(v) == TypeOf(v) \in {"str", "int", "float", "bool", "NoneType"}

\* json.dumps raises TypeError on anything that is not one of these
RECURSIVE JsonSerializable(_)
JsonSerializable(v) ==
    CASE IsScalar(v) -> TRUE
      [] TypeOf(v) \in {"list", "tuple"} ->
            \A i \in 1..Len(Body(v)) : JsonSerializable(Body(v)[i])
      [] TypeOf(v) = "dict" ->
            \A i \in 1..Len(Body(v)) :
                /\ TypeOf(Body(v)[i][1]) \in {"str", "int", "bool", "NoneType"}
                /\ JsonSerializable(Body(v)[i][2])
      [] OTHER -> FALSE

\* a dict key is written as a JSON string: str keys as they are, int keys as
\* their digits, bool and None keys as true/false/null (float keys are not
\* among the modelled values)
JsonKey(k) ==
    CASE TypeOf(k) = "str" -> Body(k)
      [] TypeOf(k) = "int" -> Concat(StrInt(Body(k)))
      [] TypeOf(k) = "bool" -> IF Body(k) THEN "true" ELSE "false"
      [] OTHER -> "null"

RECURSIVE json_dumps(_)
json_dumps(v) ==
    CASE TypeOf(v) = "dict" ->
            <<"object", [i \in 1..Len(Body(v)) |->
                            <<JsonKey(Body(v)[i][1]), json_dumps(Body(v)[i][2])>>]>>
      [] TypeOf(v) \in {"list", "tuple"} ->
            <<"array", [i \in 1..Len(Body(v)) |-> json_dumps(Body(v)[i])]>>
      [] TypeOf(v) = "str" -> <<"string", Body(v)>>
      [] TypeOf(v) = "int" -> <<"integer", Body(v)>>
      [] TypeOf(v) = "float" -> <<"real", Body(v)>>
      [] TypeOf(v) = "bool" -> <<"boolean", Body(v)>>
      [] OTHER -> <<"null", <<>>>>

RECURSIVE json_loads(_)
json_loads(j) ==
    CASE j[1] = "object" ->
            PyDict([i \in 1..Len(j[2]) |-> <<PyStr(j[2][i][1]), json_loads(j[2][i][2])>>])
      [] j[1] = "array" -> PyList([i \in 1..Len(j[2]) |-> json_loads(j[2][i])])
      [] j[1] = "string" -> PyStr(j[2])
      [] j[1] = "integer" -> PyInt(j[2])
      [] j[1] = "real" -> PyFloat(j[2])
      [] j[1] = "boolean" -> PyBool(j[2])
      [] OTHER -> PyNone

-----------------------------------------------------------------------------
(* CacheService._serialize / _deserialize                                   *)
(* Stored bytes are <<format, document>>: a pickle carries the object as it *)
(* is, a JSON text carries its JSON document.                               *)

Raised == [raised |-> TRUE, value |-> PyNone]
Returned(v) == [raised |-> FALSE, value |-> v]

_serialize(value) ==
    IF TypeOf(value) = "ndarray" THEN Returned(<<"pickle", value>>)
    ELSE IF TypeOf(value) \in {"dict", "list"}
    THEN IF JsonSerializable(value)
         THEN Returned(<<"json", json_dumps(value)>>)
         ELSE Raised
    ELSE Returned(<<"pickle", value>>)

\* pickle.loads of JSON text and json.loads of a pickle both raise
_deserialize(data, data_type) ==
    IF data_type = "numpy"
    THEN IF data[1] = "pickle" THEN Returned(data[2]) ELSE Raised
    ELSE IF data_type = "json"
    THEN IF data[1] = "json" THEN Returned(json_loads(data[2])) ELSE Raised
    ELSE IF data[1] = "json" THEN Returned(json_loads(data[2])) ELSE Returned(data[2])

-----------------------------------------------------------------------------
(* CacheService operations, as functions from the current state to the      *)
(* returned value and the fields they leave behind.                         *)

InProcess == cache_backend = "none"

Bump(stats, field) == [stats EXCEPT ![field] = @ + 1]

\* fnmatch.fnmatch / Redis MATCH for patterns built from literals, * and ?
RECURSIVE GlobFrom(_, _, _, _)
GlobFrom(name, i, pat, j) ==
    IF j > Len(pat) THEN i > Len(name)
    ELSE IF pat[j] = "*"
    THEN GlobFrom(name, i, pat, j + 1) \/ (i <= Len(name) /\ GlobFrom(name, i + 1, pat, j))
    ELSE /\ i <= Len(name)
         /\ (pat[j] = "?" \/ pat[j] = name[i])
         /\ GlobFrom(name, i + 1, pat, j + 1)

fnmatch(name, pat) == GlobFrom(name, 1, pat, 1)

_get_key(prefix, key) == prefix \o <<":">> \o key

EmptyMap == [k \in {} |-> k]
Without(f, keys) == [k \in DOMAIN f \ keys |-> f[k]]
With(f, key, v) == [k \in DOMAIN f \cup {key} |-> IF k = key THEN v ELSE f[k]]

\* the fields of the service object a call reads and may replace
Self ==
    [in_memory_cache |-> in_memory_cache, redis_store |-> redis_store,
     timers |-> timers, cache_stats |-> cache_stats]

\* get on the service in state self: the value returned (PyNone on a miss)
\* and the counters
CacheService_get(self, key, data_type) ==
    IF ~InProcess
    THEN IF ~redis_up
         THEN [hit |-> FALSE, value |-> PyNone,
               cache_stats |-> Bump(self.cache_stats, "misses")]
         ELSE IF key \in DOMAIN self.redis_store
         THEN LET d == _deserialize(self.redis_store[key].data, data_type) IN
              IF d.raised
              THEN [hit |-> FALSE, value |-> PyNone,
                    cache_stats |-> Bump(Bump(self.cache_stats, "hits"), "misses")]
              ELSE [hit |-> TRUE, value |-> d.value,
                    cache_stats |-> Bump(self.cache_stats, "hits")]
         ELSE [hit |-> FALSE, value |-> PyNone,
               cache_stats |-> Bump(self.cache_stats, "misses")]
    ELSE IF key \in DOMAIN self.in_memory_cache
         THEN [hit |-> TRUE, value |-> self.in_memory_cache[key],
               cache_stats |-> Bump(self.cache_stats, "hits")]
         ELSE [hit |-> FALSE, value |-> PyNone,
               cache_stats |-> Bump(self.cache_stats, "misses")]

\* get(key, data_type) on the current state
get(key, data_type) == CacheService_get(Self, key, data_type)

SetFailed(self) ==
    [ok |-> FALSE, in_memory_cache |-> self.in_memory_cache,
     redis_store |-> self.redis_store, timers |-> self.timers,
     cache_stats |-> self.cache_stats]

\* _schedule_deletion(key, ttl): one more sleeping thread
_schedule_deletion(running, key, ttl) ==
    running (+) SetToBag({[key |-> key, remaining |-> ttl]})

\* set on the service in state self; ttl = 0 stands for None
CacheService_set(self, key, value, ttl) ==
    IF ~InProcess
    THEN LET data == _serialize(value) IN
         IF data.raised \/ ~redis_up
         THEN SetFailed(self)
         ELSE [ok |-> TRUE, in_memory_cache |-> self.in_memory_cache,
               redis_store |-> With(self.redis_store, key, [data |-> data.value, ttl |-> ttl]),
               timers |-> self.timers, cache_stats |-> Bump(self.cache_stats, "sets")]
    ELSE [ok |-> TRUE, in_memory_cache |-> With(self.in_memory_cache, key, value),
          redis_store |-> self.redis_store,
          timers |-> IF ttl # 0 THEN _schedule_deletion(self.timers, key, ttl)
                     ELSE self.timers,
          cache_stats |-> Bump(self.cache_stats, "sets")]

\* set(key, value, ttl) on the current state
set(key, value, ttl) == CacheService_set(Self, key, value, ttl)

\* delete(key)
delete(key) ==
    IF ~InProcess
    THEN IF ~redis_up
         THEN [ok |-> FALSE, in_memory_cache |-> in_memory_cache,
               redis_store |-> redis_store, cache_stats |-> cache_stats]
         ELSE [ok |-> TRUE, in_memory_cache |-> in_memory_cache,
               redis_store |-> Without(redis_store, {key}),
               cache_stats |-> Bump(cache_stats, "deletes")]
    ELSE [ok |-> TRUE, in_memory_cache |-> Without(in_memory_cache, {key}),
          redis_store |-> redis_store, cache_stats |-> Bump(cache_stats, "deletes")]

\* the store the service reads from
Store == IF InProcess THEN in_memory_cache ELSE redis_store

\* clear(pattern) on the active store; the empty pattern stands for None.
\* The count is -1 after FLUSHDB, 0 when the Redis calls raise.
clear(store, pattern) ==
    IF ~InProcess /\ ~redis_up
    THEN [count |-> 0, store |-> store]
    ELSE IF pattern # <<>>
    THEN LET keys_to_delete == {k \in DOMAIN store : fnmatch(k, pattern)} IN
         [count |-> Cardinality(keys_to_delete), store |-> Without(store, keys_to_delete)]
    ELSE [count |-> IF InProcess THEN Cardinality(DOMAIN store) ELSE -1, store |-> EmptyMap]

-----------------------------------------------------------------------------
(* High-level caching methods *)

T_query == <<"q", "u", "e", "r", "y">>
T_embedding == <<"e", "m", "b", "e", "d", "d", "i", "n", "g">>
T_chunk == <<"c", "h", "u", "n", "k">>
T_project == <<"p", "r", "o", "j", "e", "c", "t">>
T_global == <<"g", "l", "o", "b", "a", "l">>
T_text_embed == <<"t", "e", "x", "t", "_", "e", "m", "b", "e", "d">>

\* f"query:{project_id}", f"embedding:{document_id}", f"chunk:{document_id}"
Namespace(kind, id) == kind \o <<":">> \o id

cache_query_result(project_id, query, result, ttl) ==
    set(_get_key(Namespace(T_query, project_id), query), result, ttl)

get_cached_query(project_id, query) ==
    get(_get_key(Namespace(T_query, project_id), query), "json")

cache_embedding(document_id, chunk_id, embedding, ttl) ==
    set(_get_key(Namespace(T_embedding, document_id), chunk_id), embedding, ttl)

get_cached_embedding(document_id, chunk_id) ==
    get(_get_key(Namespace(T_embedding, document_id), chunk_id), "numpy")

cache_chunk(document_id, chunk_id, chunk_data, ttl) ==
    set(_get_key(Namespace(T_chunk, document_id), chunk_id), chunk_data, ttl)

get_cached_chunk(document_id, chunk_id) ==
    get(_get_key(Namespace(T_chunk, document_id), chunk_id), "json")

\* the two clears of an invalidation, one after the other
ClearBoth(pattern1, pattern2) ==
    LET first == clear(Store, pattern1)
        second == clear(first.store, pattern2)
    IN  [count |-> first.count + second.count, store |-> second.store]

\* the first pattern without the colon that closes the project id
invalidate_project_cache_open_prefix(project_id) ==
    ClearBoth(T_query \o <<":">> \o project_id \o <<"*">>,
              <<"*", ":">> \o T_project \o <<":">> \o project_id \o <<":", "*">>)

\* patterns f"query:{project_id}:*" and f"*:project:{project_id}:*"
invalidate_project_cache(project_id) ==
    ClearBoth(T_query \o <<":">> \o project_id \o <<":", "*">>,
              <<"*", ":">> \o T_project \o <<":">> \o project_id \o <<":", "*">>)

\* patterns f"embedding:{document_id}:*" and f"chunk:{document_id}:*"
invalidate_document_cache(document_id) ==
    ClearBoth(T_embedding \o <<":">> \o document_id \o <<":", "*">>,
              T_chunk \o <<":">> \o document_id \o <<":", "*">>)

-----------------------------------------------------------------------------
(* Time and the background threads *)

Elapse(ttl) == Max(0, ttl - TickUnit)
SleepOn(t) == [t EXCEPT !.remaining = Elapse(@)]

\* one TickUnit of time passes: sleeping threads get closer to waking up,
\* Redis drops the keys whose expiry is reached
Tick ==
    /\ timers' = BagOfAll(SleepOn, timers)
    /\ redis_store' = [k \in {x \in DOMAIN redis_store :
                                 redis_store[x].ttl = 0 \/ redis_store[x].ttl > TickUnit} |->
                          [redis_store[k] EXCEPT !.ttl = Elapse(@)]]
    /\ written' = [k \in DOMAIN written |->
                      [written[k] EXCEPT !.age = Min(@ + TickUnit, MaxAge)]]
    /\ UNCHANGED <<nonCacheVars, cache_backend, in_memory_cache, cache_stats, redis_up, last, nOps>>

\* delete_after_timeout: time.sleep(ttl) is over, self.in_memory_cache.pop(key, None)
delete_after_timeout(t) ==
    /\ BagIn(t, timers)
    /\ t.remaining = 0
    /\ in_memory_cache' = Without(in_memory_cache, {t.key})
    /\ timers' = timers (-) SetToBag({t})
    /\ UNCHANGED <<nonCacheVars, cache_backend, cache_stats, redis_up, redis_store, written, last, nOps>>

TimerFires == \E t \in BagToSet(timers) : delete_after_timeout(t)

\* the Redis server becomes unreachable / reachable again
RedisDown ==
    /\ cache_backend = "redis" /\ redis_up
    /\ redis_up' = FALSE
    /\ UNCHANGED <<nonCacheVars, cache_backend, in_memory_cache, cache_stats, timers, redis_store, obsVars>>

RedisUp ==
    /\ cache_backend = "redis" /\ ~redis_up
    /\ redis_up' = TRUE
    /\ UNCHANGED <<nonCacheVars, cache_backend, in_memory_cache, cache_stats, timers, redis_store, obsVars>>

-----------------------------------------------------------------------------
(* Database rows: projects, documents with their chunks, project links *)

P1 == <<"p", "1">>
P2 == <<"p", "2">>
D1 == <<"d", "1">>
D2 == <<"d", "2">>
D3 == <<"d", "3">>
V1 == <<"v", "1">>
\* ids that no project and no conversation has
P3 == <<"p", "3">>
V9 == <<"v", "0">>

\* the chunks of each document, in row order; text is given by its terms and
\* its length in characters
ChunkRows ==
    << [chunk_id |-> "c1", document_id |-> D1, document_title |-> "t1",
        terms |-> {"a"}, length |-> 50],
       [chunk_id |-> "c2", document_id |-> D1, document_title |-> "t1",
        terms |-> {"x"}, length |-> 500],
       [chunk_id |-> "c3", document_id |-> D2, document_title |-> "t2",
        terms |-> {"a", "b"}, length |-> 1200] >>

\* the text of each document; the third has none
StoredContents ==
    (D1 :> <<"A", ".", " ", "A", ".", " ", "A", ".">>)
    @@ (D2 :> <<"B", "b", "b", "!">>)
    @@ (D3 :> <<>>)

\* the Chunk and Embedding rows of the documents of ChunkRows: the chunks of
\* their texts, each with its embedding
StoredRows ==
    [chunks |->
         { [id |-> "c1", document_id |-> D1, chunk_index |-> 0,
            text |-> <<"A", ".", " ", "A", ".">>],
           [id |-> "c2", document_id |-> D1, chunk_index |-> 1,
            text |-> <<"A", ".", " ", "A", ".">>],
           [id |-> "c3", document_id |-> D2, chunk_index |-> 0,
            text |-> <<"B", "b", "b", "!">>] },
     embeddings |->
         { [id |-> "e1", chunk_id |-> "c1"],
           [id |-> "e2", chunk_id |-> "c2"],
           [id |-> "e3", chunk_id |-> "c3"] }]

\* db.query(Chunk).filter(Chunk.document_id == document_id) on the rows db
ChunksOf(db, document_id) == {c \in db.chunks : c.document_id = document_id}

\* db.query(Embedding).filter(Embedding.chunk_id.in_(chunk_ids)) on the rows db
EmbeddingsOf(db, chunk_ids) == {e \in db.embeddings : e.chunk_id \in chunk_ids}

\* db.delete(doc) through the ORM: the relationship cascade deletes the
\* chunks the Session loads for the document and the embedding of each
DeleteCascade(db, document_id) ==
    [chunks |-> db.chunks \ ChunksOf(db, document_id),
     embeddings |-> db.embeddings
                        \ EmbeddingsOf(db, {c.id : c \in ChunksOf(db, document_id)})]

\* two projects; two ingested documents, the first of them in the first
\* project; a third document that has no stored embedding, in the second
\* project; one conversation of the first project with no message yet
DbRowsOf(document_contents, rows) ==
    /\ projects = [p \in {P1, P2} |-> [name |-> "n1"]]
    /\ documents = {D1, D2, D3}
    /\ project_documents = {<<P1, D1>>, <<P2, D3>>}
    /\ conversations = [v \in {V1} |-> [project_id |-> P1, messages |-> <<>>]]
    /\ computed_for = EmptyMap
    /\ stale = {}
    /\ contents = document_contents
    /\ tables = rows
    /\ session = rows
    /\ next_id = 0
    /\ returned = [d \in {D1, D2, D3} |-> {ChunksOf(rows, d)}]
    /\ status = [d \in {D1, D2, D3} |-> "ready"]
    /\ task = EmptyMap

DbRows == DbRowsOf(StoredContents, StoredRows)

\* the default database_url is a SQLite file, and no connection of the
\* engine issues PRAGMA foreign_keys=ON
DbInit == DbRows /\ foreign_keys = FALSE

-----------------------------------------------------------------------------
(* Calls on the cache service *)

ZeroStats == [hits |-> 0, misses |-> 0, sets |-> 0, deletes |-> 0]

\* CacheService.__init__: a client only if the settings carry redis_url and
\* the ping at startup succeeded
CacheInit ==
    /\ \/ cache_backend = "redis" /\ redis_up = TRUE
       \/ cache_backend = "none" /\ redis_up = FALSE
    /\ in_memory_cache = EmptyMap
    /\ cache_stats = ZeroStats
    /\ timers = EmptyBag
    /\ redis_store = EmptyMap

ObsInit ==
    /\ written = EmptyMap
    /\ last = [op |-> "init"]
    /\ nOps = 0

\* what the caller of set(k, v, ttl) may expect of k at this moment
Fresh(k) == k \in DOMAIN written /\ (written[k].ttl = 0 \/ written[k].age < written[k].ttl)
Expired(k) == k \in DOMAIN written /\ written[k].ttl # 0 /\ written[k].age >= written[k].ttl

CallGet(key, data_type) ==
    /\ nOps < MaxOps
    /\ LET r == get(key, data_type) IN
        /\ cache_stats' = r.cache_stats
        /\ last' = [op |-> "get", key |-> key, data_type |-> data_type,
                    hit |-> r.hit, value |-> r.value,
                    hits |-> r.cache_stats.hits - cache_stats.hits,
                    misses |-> r.cache_stats.misses - cache_stats.misses,
                    fresh |-> Fresh(key), expired |-> Expired(key),
                    expected |-> IF key \in DOMAIN written THEN written[key].value ELSE PyNone,
                    in_process |-> InProcess, reachable |-> InProcess \/ redis_up]
    /\ nOps' = nOps + 1
    /\ UNCHANGED <<nonCacheVars, cache_backend, in_memory_cache, timers, redis_up, redis_store, written>>

CallSet(key, value, ttl) ==
    /\ nOps < MaxOps
    /\ LET r == set(key, value, ttl) IN
        /\ in_memory_cache' = r.in_memory_cache
        /\ redis_store' = r.redis_store
        /\ timers' = r.timers
        /\ cache_stats' = r.cache_stats
        /\ written' = IF r.ok
                      THEN With(written, key, [value |-> value, ttl |-> ttl, age |-> 0])
                      ELSE Without(written, {key})
        /\ last' = [op |-> "set", key |-> key, ok |-> r.ok,
                    in_process |-> InProcess, reachable |-> InProcess \/ redis_up,
                    serializable |-> ~_serialize(value).raised]
    /\ nOps' = nOps + 1
    /\ UNCHANGED <<nonCacheVars, cache_backend, redis_up>>

CallDelete(key) ==
    /\ nOps < MaxOps
    /\ LET r == delete(key) IN
        /\ in_memory_cache' = r.in_memory_cache
        /\ redis_store' = r.redis_store
        /\ cache_stats' = r.cache_stats
        /\ last' = [op |-> "delete", key |-> key, ok |-> r.ok,
                    in_process |-> InProcess, reachable |-> InProcess \/ redis_up]
    /\ written' = Without(written, {key})
    /\ nOps' = nOps + 1
    /\ UNCHANGED <<nonCacheVars, cache_backend, timers, redis_up>>

CallClear(pattern) ==
    /\ nOps < MaxOps
    /\ LET r == clear(Store, pattern) IN
        /\ in_memory_cache' = IF InProcess THEN r.store ELSE in_memory_cache
        /\ redis_store' = IF InProcess THEN redis_store ELSE r.store
        /\ last' = [op |-> "clear", pattern |-> pattern, count |-> r.count,
                    before |-> Store, after |-> r.store,
                    in_process |-> InProcess, reachable |-> InProcess \/ redis_up]
    /\ written' = IF pattern = <<>> THEN EmptyMap
                  ELSE Without(written, {k \in DOMAIN written : fnmatch(k, pattern)})
    /\ nOps' = nOps + 1
    /\ UNCHANGED <<nonCacheVars, cache_backend, cache_stats, timers, redis_up>>

-----------------------------------------------------------------------------
(* Worker threads on the in-process map. A thread switch can fall between   *)
(* any two statements; x[k] += 1 is a read followed by a write.             *)

Threads == {1, 2}
ThreadKey == <<"k", "1">>
ThreadValues == {PyStr("value1"), PyStr("value2")}

ThreadInit ==
    /\ tpc = [t \in Threads |-> "idle"]
    /\ tcall = [t \in Threads |-> [op |-> "none"]]
    /\ ttmp = [t \in Threads |-> 0]
    /\ completed = [gets |-> 0, sets |-> 0, deletes |-> 0, by |-> [t \in Threads |-> 0]]
    /\ writes = {}

Goto(t, label) == tpc' = [tpc EXCEPT ![t] = label]

Return(t, op) ==
    /\ Goto(t, "idle")
    /\ completed' = [completed EXCEPT ![op] = @ + 1, !.by[t] = @ + 1]

\* a worker enters get(key), set(key, value) or delete(key)
ThreadCall(t, op, value) ==
    /\ tpc[t] = "idle"
    /\ completed.by[t] < MaxThreadCalls
    /\ tcall' = [tcall EXCEPT ![t] = [op |-> op, key |-> ThreadKey, value |-> value]]
    /\ Goto(t, IF op = "gets" THEN "get_test" ELSE IF op = "sets" THEN "set_store" ELSE "delete_pop")
    /\ writes' = IF op = "sets" THEN writes \cup {value} ELSE writes
    /\ UNCHANGED <<nonThreadVars, in_memory_cache, cache_stats, ttmp, completed>>

\* get: if key in self.in_memory_cache
get_test(t) ==
    /\ tpc[t] = "get_test"
    /\ Goto(t, IF tcall[t].key \in DOMAIN in_memory_cache THEN "get_hits_read" ELSE "get_misses_read")
    /\ UNCHANGED <<nonThreadVars, in_memory_cache, cache_stats, tcall, ttmp, completed, writes>>

\* the read half of self.cache_stats[counter] += 1
CounterRead(t, at, counter, next) ==
    /\ tpc[t] = at
    /\ ttmp' = [ttmp EXCEPT ![t] = cache_stats[counter]]
    /\ Goto(t, next)
    /\ UNCHANGED <<nonThreadVars, in_memory_cache, cache_stats, tcall, completed, writes>>

\* the write half; the call returns after its last counter update
CounterWrite(t, at, counter, next) ==
    /\ tpc[t] = at
    /\ cache_stats' = [cache_stats EXCEPT ![counter] = ttmp[t] + 1]
    /\ IF next = "return"
       THEN Return(t, tcall[t].op)
       ELSE Goto(t, next) /\ UNCHANGED completed
    /\ UNCHANGED <<nonThreadVars, in_memory_cache, tcall, ttmp, writes>>

\* get: return self.in_memory_cache[key]; a KeyError lands in the except
\* clause, which counts a miss
get_return(t) ==
    /\ tpc[t] = "get_return"
    /\ IF tcall[t].key \in DOMAIN in_memory_cache
       THEN Return(t, "gets")
       ELSE Goto(t, "get_misses_read") /\ UNCHANGED completed
    /\ UNCHANGED <<nonThreadVars, in_memory_cache, cache_stats, tcall, ttmp, writes>>

\* set: self.in_memory_cache[key] = value
set_store(t) ==
    /\ tpc[t] = "set_store"
    /\ in_memory_cache' = With(in_memory_cache, tcall[t].key, tcall[t].value)
    /\ Goto(t, "set_sets_read")
    /\ UNCHANGED <<nonThreadVars, cache_stats, tcall, ttmp, completed, writes>>

\* delete: self.in_memory_cache.pop(key, None)
delete_pop(t) ==
    /\ tpc[t] = "delete_pop"
    /\ in_memory_cache' = Without(in_memory_cache, {tcall[t].key})
    /\ Goto(t, "delete_deletes_read")
    /\ UNCHANGED <<nonThreadVars, cache_stats, tcall, ttmp, completed, writes>>

ThreadsNext ==
    \/ \E t \in Threads, v \in ThreadValues : ThreadCall(t, "sets", v)
    \/ \E t \in Threads : ThreadCall(t, "gets", PyNone)
    \/ \E t \in Threads : ThreadCall(t, "deletes", PyNone)
    \/ \E t \in Threads : get_test(t)
    \/ \E t \in Threads : CounterRead(t, "get_hits_read", "hits", "get_hits_write")
    \/ \E t \in Threads : CounterWrite(t, "get_hits_write", "hits", "get_return")
    \/ \E t \in Threads : get_return(t)
    \/ \E t \in Threads : CounterRead(t, "get_misses_read", "misses", "get_misses_write")
    \/ \E t \in Threads : CounterWrite(t, "get_misses_write", "misses", "return")
    \/ \E t \in Threads : set_store(t)
    \/ \E t \in Threads : CounterRead(t, "set_sets_read", "sets", "set_sets_write")
    \/ \E t \in Threads : CounterWrite(t, "set_sets_write", "sets", "return")
    \/ \E t \in Threads : delete_pop(t)
    \/ \E t \in Threads : CounterRead(t, "delete_deletes_read", "deletes", "delete_deletes_write")
    \/ \E t \in Threads : CounterWrite(t, "delete_deletes_write", "deletes", "return")

InitThreads == CacheInit /\ cache_backend = "none" /\ ObsInit /\ ThreadInit /\ DbInit

SpecThreads == InitThreads /\ [][ThreadsNext]_vars

Quiescent == \A t \in Threads : tpc[t] = "idle"

(* C8: access to the in-process cache is synchronized: under any            *)
(* interleaving of get/set/delete calls of several threads, hits + misses   *)
(* is the number of completed gets, sets and deletes count the completed    *)
(* set and delete calls, and the value left under a key is the value of one *)
(* of the writes to it.                                                     *)
C8_CountersMatchCompletedCalls ==
    Quiescent =>
        /\ cache_stats.hits + cache_stats.misses = completed.gets
        /\ cache_stats.sets = completed.sets
        /\ cache_stats.deletes = completed.deletes
        /\ \A k \in DOMAIN in_memory_cache : in_memory_cache[k] \in writes

\* the part of it that holds without a lock: a stored value is always one
\* of the written values
StoredValueWasWritten == \A k \in DOMAIN in_memory_cache : in_memory_cache[k] \in writes

-----------------------------------------------------------------------------
(* SpecCache: callers of the cache service, time, the deletion threads and  *)
(* the Redis server.                                                        *)

TestKeys == {<<"k", "1">>}

TestValues ==
    { PyDict(<< <<PyStr("data"), PyStr("test_value")>> >>),     \* a JSON object
      PyList(<<PyFloat(1), PyFloat(2)>>),                       \* a vector as a list
      NdArray(<<1, 2>>),                                        \* a numpy vector
      PyStr("value1") }                                         \* a JSON scalar

TestTtls == {0, QUERY_TTL, EMBEDDING_TTL}
DataTypes == {"auto", "json", "numpy"}
TestPatterns == {<<>>, <<"k", "*">>}

CacheNext ==
    \/ \E k \in TestKeys, dt \in DataTypes : CallGet(k, dt)
    \/ \E k \in TestKeys, v \in TestValues, ttl \in TestTtls : CallSet(k, v, ttl)
    \/ \E k \in TestKeys : CallDelete(k)
    \/ \E pat \in TestPatterns : CallClear(pat)
    \/ Tick
    \/ TimerFires
    \/ RedisDown
    \/ RedisUp

InitCache == CacheInit /\ ObsInit /\ ThreadInit /\ DbInit

SpecCache == InitCache /\ [][CacheNext]_vars

(* C4: in in-process mode, a get(k) issued once the TTL of the latest       *)
(* set(k, v, ttl) has elapsed is a miss: it returns None and is counted as  *)
(* a miss.                                                                  *)
C4_ExpiredGetIsMiss ==
    (last.op = "get" /\ last.in_process /\ last.expired)
        => (~last.hit /\ last.value = PyNone /\ last.misses = 1)

\* values a JSON text carries unchanged
RECURSIVE JsonCompatible(_)
JsonCompatible(v) ==
    CASE IsScalar(v) -> TRUE
      [] TypeOf(v) = "list" -> \A i \in 1..Len(Body(v)) : JsonCompatible(Body(v)[i])
      [] TypeOf(v) = "dict" ->
            \A i \in 1..Len(Body(v)) :
                TypeOf(Body(v)[i][1]) = "str" /\ JsonCompatible(Body(v)[i][2])
      [] OTHER -> FALSE

\* the data_type each getter passes, against the values its setter takes:
\* get -> "auto"; get_cached_query, get_cached_chunk -> "json" for a dict;
\* get_cached_embedding -> "numpy" for an ndarray
GetterFits(v, data_type) ==
    \/ data_type = "auto" /\ (JsonCompatible(v) \/ TypeOf(v) = "ndarray")
    \/ data_type = "json" /\ TypeOf(v) \in {"dict", "list"} /\ JsonCompatible(v)
    \/ data_type = "numpy" /\ TypeOf(v) = "ndarray"

(* C5: set(k, v, ttl) followed by get(k) before the TTL elapses, with no    *)
(* delete or clear of k in between, returns a value equal to v, in-process  *)
(* and on a reachable Redis, for JSON-compatible values and vectors.        *)
C5_SetThenGetReturnsValue ==
    (last.op = "get" /\ last.fresh /\ last.reachable
                    /\ GetterFits(last.expected, last.data_type))
        => (last.hit /\ last.value = last.expected)

\* the same round trip where no deletion thread of an earlier set is involved:
\* on Redis, which keeps one expiry per key
RoundTripOnRedis == last.op = "get" /\ ~last.in_process => C5_SetThenGetReturnsValue

(* C27: in in-process mode no entry is removed because of an earlier       *)
(* write's TTL: while the TTL of the latest set(k, v) has not elapsed, and  *)
(* k was not deleted or cleared since, k is in the in-process map.          *)
C27_NoRemovalByEarlierTtl ==
    InProcess => \A k \in DOMAIN written : Fresh(k) => k \in DOMAIN in_memory_cache

(* C6: once Redis has become unreachable the cache degrades to the          *)
(* in-process map: a set(k, v) reports success.                             *)
C6_SetSucceedsWhileRedisUnreachable ==
    (last.op = "set" /\ ~last.reachable /\ last.serializable) => last.ok

\* what does hold: with Redis unreachable no call changes either store
UnreachableMeansNoEffect ==
    [][(cache_backend = "redis" /\ ~redis_up) =>
            (in_memory_cache' = in_memory_cache /\ redis_store' = redis_store)]_vars

-----------------------------------------------------------------------------
(* SpecClear: entries written through the high-level methods, removed by    *)
(* clear(pattern) and by the two invalidation methods.                      *)

ClearProjects == {<<"p", "1">>, <<"p", "1", "2">>, <<"p", "2">>}
ClearHashes == {<<"a", "1">>, <<"b", "2">>}
ClearDocuments == {<<"d", "1">>}
ClearChunks == {<<"c", "1">>}
ClearPatterns ==
    { T_query \o <<":", "*">>,
      T_query \o <<":", "p", "?", ":", "*">>,
      <<"*", ":", "c", "1">> }

SomeResult == PyDict(<< <<PyStr("answer"), PyStr("AI is artificial intelligence")>> >>)
SomeVector == NdArray(<<1, 2>>)

ApplySet(key, value, ttl, r, op) ==
    /\ nOps < MaxOps
    /\ in_memory_cache' = r.in_memory_cache
    /\ redis_store' = r.redis_store
    /\ timers' = r.timers
    /\ cache_stats' = r.cache_stats
    /\ written' = IF r.ok
                  THEN With(written, key, [value |-> value, ttl |-> ttl, age |-> 0])
                  ELSE Without(written, {key})
    /\ last' = [op |-> op, key |-> key, ok |-> r.ok,
                in_process |-> InProcess, reachable |-> InProcess \/ redis_up,
                serializable |-> ~_serialize(value).raised]
    /\ nOps' = nOps + 1
    /\ UNCHANGED <<nonCacheVars, cache_backend, redis_up>>

CallCacheQueryResult(project_id, query) ==
    ApplySet(_get_key(Namespace(T_query, project_id), query), SomeResult, QUERY_TTL,
             cache_query_result(project_id, query, SomeResult, QUERY_TTL),
             "cache_query_result")

CallCacheEmbedding(document_id, chunk_id) ==
    ApplySet(_get_key(Namespace(T_embedding, document_id), chunk_id), SomeVector,
             EMBEDDING_TTL,
             cache_embedding(document_id, chunk_id, SomeVector, EMBEDDING_TTL),
             "cache_embedding")

CallCacheChunk(document_id, chunk_id) ==
    ApplySet(_get_key(Namespace(T_chunk, document_id), chunk_id), SomeResult,
             EMBEDDING_TTL,
             cache_chunk(document_id, chunk_id, SomeResult, EMBEDDING_TTL),
             "cache_chunk")

ApplyClear(r, op, target) ==
    /\ nOps < MaxOps
    /\ in_memory_cache' = IF InProcess THEN r.store ELSE in_memory_cache
    /\ redis_store' = IF InProcess THEN redis_store ELSE r.store
    /\ last' = [op |-> op, target |-> target, count |-> r.count,
                before |-> Store, after |-> r.store,
                in_process |-> InProcess, reachable |-> InProcess \/ redis_up]
    /\ written' = Without(written, DOMAIN Store \ DOMAIN r.store)
    /\ nOps' = nOps + 1
    /\ UNCHANGED <<nonCacheVars, cache_backend, cache_stats, timers, redis_up>>

CallInvalidateProject(project_id) ==
    ApplyClear(invalidate_project_cache(project_id), "invalidate_project_cache", project_id)

CallInvalidateDocument(document_id) ==
    ApplyClear(invalidate_document_cache(document_id), "invalidate_document_cache",
               document_id)

ClearNext ==
    \/ \E p \in ClearProjects, h \in ClearHashes : CallCacheQueryResult(p, h)
    \/ \E d \in ClearDocuments, c \in ClearChunks : CallCacheEmbedding(d, c)
    \/ \E d \in ClearDocuments, c \in ClearChunks : CallCacheChunk(d, c)
    \/ \E pat \in ClearPatterns : CallClear(pat)
    \/ \E p \in ClearProjects : CallInvalidateProject(p)
    \/ \E d \in ClearDocuments : CallInvalidateDocument(d)
    \/ Tick
    \/ TimerFires

InitClear == CacheInit /\ ObsInit /\ ThreadInit /\ DbInit

SpecClear == InitClear /\ [][ClearNext]_vars

\* glob matching stated on its own: every * stands for some number of
\* characters, every other pattern character for exactly one
RECURSIVE Expand(_, _, _)
Expand(pat, j, width) ==
    IF j > Len(pat) THEN <<>>
    ELSE (IF pat[j] = "*" THEN [i \in 1..width[j] |-> "?"] ELSE <<pat[j]>>)
            \o Expand(pat, j + 1, width)

Matches(name, pat) ==
    \E width \in [{j \in 1..Len(pat) : pat[j] = "*"} -> 0..Len(name)] :
        LET e == Expand(pat, 1, width) IN
            /\ Len(e) = Len(name)
            /\ \A i \in 1..Len(e) : e[i] = "?" \/ e[i] = name[i]

\* the query-result keys cache_query_result writes for a project
QueryKeysOf(project_id) ==
    {_get_key(Namespace(T_query, project_id), h) : h \in ClearHashes}

Removed == DOMAIN last.before \ DOMAIN last.after
Kept == \A k \in DOMAIN last.after : k \in DOMAIN last.before /\ last.after[k] = last.before[k]

-----------------------------------------------------------------------------
(* EmbeddingService.generate_embedding                                      *)

MaxBatch == 3           \* texts in one batch call

\* hashlib.sha256(...).hexdigest(): the digest is an opaque token, one per
\* input (no collisions), holding none of the characters : * ? |
sha256_hexdigest(text) == <<Concat(<<"#">> \o text)>>

\* str(True) / str(False)
StrBool(b) == IF b THEN <<"T", "r", "u", "e">> ELSE <<"F", "a", "l", "s", "e">>

\* the number of distinct vectors the modelled encoder returns
CodeSpace == 1048573

CharCode(c) == CASE c = "a" -> 1 [] c = "b" -> 2 [] OTHER -> 3

\* the code of a text continued by more characters
RECURSIVE CodeFrom(_, _)
CodeFrom(code, text) ==
    IF text = <<>> THEN code
    ELSE CodeFrom((4 * code + CharCode(Head(text))) % CodeSpace, Tail(text))

\* the code of a text, taken sixteen characters at a time
RECURSIVE TextCode(_)
TextCode(text) ==
    IF Len(text) <= 16 THEN CodeFrom(0, text)
    ELSE Bind(TextCode(SubSeq(text, 1, Len(text) - 16)), LAMBDA code :
             CodeFrom(code, SubSeq(text, Len(text) - 15, Len(text))))

\* _model.encode(text, normalize_embeddings=normalize): the model is a
\* function of its input; the vector is named by the text and the flag
encode(text, normalize) == NdArray(<<TextCode(text), IF normalize THEN 1 ELSE 0>>)

\* list.sort(key=..., reverse=...): stable in both directions
StableSort(seq, Key(_), reverse) ==
    LET n == Len(seq)
        Before(j, i) ==
            \/ IF reverse THEN Key(seq[j]) > Key(seq[i]) ELSE Key(seq[j]) < Key(seq[i])
            \/ Key(seq[j]) = Key(seq[i]) /\ j < i
        Place(i) == Cardinality({j \in 1..n : Before(j, i)}) + 1
    IN  [p \in 1..n |-> seq[CHOOSE i \in 1..n : Place(i) = p]]

IndexOf(pair) == pair[1]

\* the pairs as they were appended: cached ones first, computed ones after
AsAppended(embeddings) == embeddings

\* embeddings.sort(key=lambda x: x[0])
SortByIndex(embeddings) == StableSort(embeddings, IndexOf, FALSE)

\* the cache key of one text: document "text_embed", chunk sha256(f"{t}_{normalize}")
TextEmbedKey(t, normalize) == sha256_hexdigest(t \o <<"_">> \o StrBool(normalize))

NextSelf(self, r) ==
    [in_memory_cache |-> r.in_memory_cache, redis_store |-> r.redis_store,
     timers |-> r.timers, cache_stats |-> r.cache_stats]

\* the counters after a lookup that was made only with caching on
AfterLookup(self, looked, use_cache) ==
    IF use_cache THEN [self EXCEPT !.cache_stats = looked.cache_stats] ELSE self

\* single text: cache lookup, inference on a miss, cache write
generate_embedding_single(self, text, normalize, use_cache, model_fails) ==
    Bind(_get_key(Namespace(T_embedding, T_text_embed), TextEmbedKey(text, normalize)),
         LAMBDA key :
    Bind(CacheService_get(self, key, "numpy"), LAMBDA looked :
    Bind(AfterLookup(self, looked, use_cache), LAMBDA self1 :
        IF use_cache /\ looked.hit /\ looked.value # PyNone
        THEN [raised |-> FALSE, result |-> looked.value, encoded |-> <<>>, self |-> self1]
        ELSE IF model_fails
        THEN [raised |-> TRUE, result |-> PyNone, encoded |-> <<text>>, self |-> self1]
        ELSE Bind(encode(text, normalize), LAMBDA embedding :
             [raised |-> FALSE, result |-> embedding, encoded |-> <<text>>,
              self |-> IF use_cache
                       THEN Bind(CacheService_set(self1, key, embedding, EMBEDDING_TTL),
                                 LAMBDA stored : NextSelf(self1, stored))
                       ELSE self1]))))

\* the loop over enumerate(text): cached pairs, texts and indices to process
RECURSIVE CheckCache(_, _, _, _)
CheckCache(acc, text, normalize, i) ==
    IF i > Len(text) THEN acc
    ELSE Bind(CacheService_get(acc.self,
                               _get_key(Namespace(T_embedding, T_text_embed),
                                        TextEmbedKey(text[i], normalize)),
                               "numpy"),
              LAMBDA looked :
         Bind(IF looked.hit /\ looked.value # PyNone
              THEN [acc EXCEPT !.embeddings = Append(@, <<i - 1, looked.value>>),
                               !.self = [@ EXCEPT !.cache_stats = looked.cache_stats]]
              ELSE [acc EXCEPT !.texts_to_process = Append(@, text[i]),
                               !.indices_to_process = Append(@, i - 1),
                               !.self = [@ EXCEPT !.cache_stats = looked.cache_stats]],
              LAMBDA next : CheckCache(next, text, normalize, i + 1)))

\* the loop over zip(texts_to_process, new_embeddings): one cache write each
RECURSIVE CacheNew(_, _, _, _, _)
CacheNew(self, texts_to_process, new_embeddings, normalize, j) ==
    IF j > Len(texts_to_process) THEN self
    ELSE Bind(CacheService_set(self,
                               _get_key(Namespace(T_embedding, T_text_embed),
                                        TextEmbedKey(texts_to_process[j], normalize)),
                               new_embeddings[j], EMBEDDING_TTL),
              LAMBDA stored :
         Bind(NextSelf(self, stored),
              LAMBDA next : CacheNew(next, texts_to_process, new_embeddings,
                                     normalize, j + 1)))

\* the vectors of the sorted pairs
Extract(sorted) == [p \in 1..Len(sorted) |-> sorted[p][2]]

\* list of texts: partition by cache lookup, inference on the misses,
\* recombination by original index
generate_embedding_batch(self, text, normalize, use_cache, model_fails) ==
    Bind(IF use_cache
         THEN CheckCache([embeddings |-> <<>>, texts_to_process |-> <<>>,
                          indices_to_process |-> <<>>, self |-> self],
                         text, normalize, 1)
         ELSE [embeddings |-> <<>>, texts_to_process |-> text,
               indices_to_process |-> [i \in 1..Len(text) |-> i - 1], self |-> self],
         LAMBDA checked :
        IF checked.texts_to_process # <<>> /\ model_fails
        THEN [raised |-> TRUE, result |-> <<>>, encoded |-> checked.texts_to_process,
              hits |-> {p[1] : p \in Range(checked.embeddings)}, self |-> checked.self]
        ELSE Bind([j \in 1..Len(checked.texts_to_process) |->
                       encode(checked.texts_to_process[j], normalize)],
                  LAMBDA new_embeddings :
             [raised |-> FALSE,
              result |-> Extract(SortByIndex(
                             checked.embeddings \o
                             [j \in 1..Len(checked.texts_to_process) |->
                                  <<checked.indices_to_process[j], new_embeddings[j]>>])),
              encoded |-> checked.texts_to_process,
              hits |-> {p[1] : p \in Range(checked.embeddings)},
              self |-> IF use_cache
                       THEN CacheNew(checked.self, checked.texts_to_process,
                                     new_embeddings, normalize, 1)
                       ELSE checked.self]))

EmbedTexts == {<<"a">>, <<"b">>}

RECURSIVE SeqsUpTo(_, _)
SeqsUpTo(S, n) ==
    IF n = 0 THEN {<<>>}
    ELSE LET shorter == SeqsUpTo(S, n - 1) IN
         shorter \cup {Append(q, x) : q \in shorter, x \in S}

EmbedBatches == SeqsUpTo(EmbedTexts, MaxBatch)

\* the fields a call on the embedding service leaves behind
AfterEmbedding(r) ==
    /\ in_memory_cache' = r.self.in_memory_cache
    /\ redis_store' = r.self.redis_store
    /\ timers' = r.self.timers
    /\ cache_stats' = r.self.cache_stats
    /\ nOps' = nOps + 1
    /\ UNCHANGED <<nonCacheVars, cache_backend, redis_up, written>>

\* generate_embedding has returned r for a single text / for a list; one call
\* is observed
EmbeddingReturned(text, normalize, use_cache, batch, result, r) ==
    /\ last' = [op |-> "generate_embedding", batch |-> batch, text |-> text,
                normalize |-> normalize, use_cache |-> use_cache,
                raised |-> r.raised, result |-> result, encoded |-> r.encoded,
                hits |-> IF batch THEN r.hits
                         ELSE IF r.encoded = <<>> THEN {0} ELSE {}]
    /\ AfterEmbedding(r)

CallGenerateEmbedding(text, normalize, use_cache, model_fails) ==
    /\ nOps = 0
    /\ \E r \in {generate_embedding_single(Self, text, normalize, use_cache, model_fails)} :
        EmbeddingReturned(<<text>>, normalize, use_cache, FALSE, <<r.result>>, r)

CallGenerateEmbeddings(text, normalize, use_cache, model_fails) ==
    /\ nOps = 0
    /\ \E r \in {generate_embedding_batch(Self, text, normalize, use_cache, model_fails)} :
        EmbeddingReturned(text, normalize, use_cache, TRUE, r.result, r)

EmbedNext ==
    \/ \E t \in EmbedTexts, n, u, f \in BOOLEAN : CallGenerateEmbedding(t, n, u, f)
    \/ \E b \in EmbedBatches, n, u, f \in BOOLEAN : CallGenerateEmbeddings(b, n, u, f)
    \/ Tick
    \/ TimerFires
    \/ RedisDown
    \/ RedisUp

EmbedKeys == EmbedTexts \X BOOLEAN

\* the service after generate_embedding(t, normalize) has been called once
\* for each of the given texts
RECURSIVE WarmedUp(_, _)
WarmedUp(self, keys) ==
    IF keys = {} THEN self
    ELSE LET k == CHOOSE x \in keys : TRUE IN
         WarmedUp(generate_embedding_single(self, k[1], k[2], TRUE, FALSE).self,
                  keys \ {k})

\* a service that has embedded some texts before; one further call is observed
InitEmbed ==
    /\ cache_backend \in {"redis", "none"}
    /\ redis_up = (cache_backend = "redis")
    /\ \E keys \in SUBSET EmbedKeys :
         LET fresh == [in_memory_cache |-> EmptyMap, redis_store |-> EmptyMap,
                       timers |-> EmptyBag, cache_stats |-> ZeroStats]
             self == WarmedUp(fresh, keys)
         IN  /\ in_memory_cache = self.in_memory_cache
             /\ redis_store = self.redis_store
             /\ timers = self.timers
             /\ cache_stats = self.cache_stats
    /\ ObsInit
    /\ ThreadInit
    /\ DbInit

SpecEmbed == InitEmbed /\ [][EmbedNext]_vars

BatchReturned == last.op = "generate_embedding" /\ last.batch /\ ~last.raised

\* C9: a batch call that returns gives one vector per input text, and the
\* vector at each index is the embedding of the text at that index, whatever
\* part of the inputs was found in the cache.
C9_BatchKeepsInputOrder ==
    BatchReturned =>
        /\ Len(last.result) = Len(last.text)
        /\ \A i \in 1..Len(last.text) : last.result[i] = encode(last.text[i], last.normalize)

\* a batch of three where the middle text came from the cache and the texts
\* around it went to the model
C9_Witness ==
    /\ BatchReturned
    /\ Len(last.text) = 3
    /\ last.hits = {1}
    /\ Len(last.encoded) = 2

\* C10: in a batch call on ["a", "b", "a"] with caching on, the text "a" goes
\* to the model at most once, and the vectors at index 0 and index 2 are equal.
C10_DuplicateInferredOnce ==
    (BatchReturned /\ last.use_cache /\ last.text = <<<<"a">>, <<"b">>, <<"a">>>>) =>
        /\ Cardinality({j \in 1..Len(last.encoded) : last.encoded[j] = <<"a">>}) <= 1
        /\ last.result[1] = last.result[3]

-----------------------------------------------------------------------------
(* RAGService: cache key, retrieval, rerank, response                       *)

\* settings.rerank_enabled / rerank_alpha / rerank_beta / rerank_gamma, the
\* weights in tenths
rerank_enabled == TRUE
rerank_alpha == 7
rerank_beta == 2
rerank_gamma == 1
\* threshold=0.5 of the candidate search, in hundredths
CANDIDATE_THRESHOLD == 50

\* Optional[str]: None or a string
NoProject == [none |-> TRUE, id |-> <<>>]
Project(id) == [none |-> FALSE, id |-> id]

\* str(project_id), and the truth value of "if project_id" / "project_id or ..."
StrOptional(project_id) == IF project_id.none THEN <<"N", "o", "n", "e">> ELSE project_id.id
IsSet(project_id) == ~project_id.none /\ project_id.id # <<>>
ProjectOrGlobal(project_id) == IF IsSet(project_id) THEN project_id.id ELSE T_global

\* str(n) for an int
StrSigned(n) == IF n < 0 THEN <<"-">> \o StrInt(-n) ELSE StrInt(n)

\* str(x) for a float given in tenths: 7 is 0.7, 10 is 1.0
StrFloat(tenths) == StrInt(tenths \div 10) \o <<".">> \o <<DigitChar(tenths % 10)>>

\* sep.join(parts)
RECURSIVE Join(_, _)
Join(parts, sep) ==
    IF parts = <<>> THEN <<>>
    ELSE IF Len(parts) = 1 THEN parts[1]
    ELSE parts[1] \o sep \o Join(Tail(parts), sep)

\* the key with top_k left out of key_parts
_generate_cache_key_without_top_k(query, project_id, top_k, temperature, max_tokens, include_sources) ==
    sha256_hexdigest(Join(<<query, StrOptional(project_id), StrFloat(temperature),
                            StrSigned(max_tokens), StrBool(include_sources)>>, <<"|">>))

_generate_cache_key(query, project_id, top_k, temperature, max_tokens, include_sources) ==
    sha256_hexdigest(Join(<<query, StrOptional(project_id), StrSigned(top_k),
                            StrFloat(temperature), StrSigned(max_tokens),
                            StrBool(include_sources)>>, <<"|">>))

\* the key get_cached_query / cache_query_result read and write for a request
QueryCacheKey(req) ==
    _get_key(Namespace(T_query, ProjectOrGlobal(req.project_id)),
             _generate_cache_key(req.query, req.project_id, req.top_k, req.temperature,
                                 req.max_tokens, req.include_sources))

\* seq[:n]
Slice(seq, n) ==
    IF n >= 0 THEN SubSeq(seq, 1, Min(n, Len(seq)))
    ELSE SubSeq(seq, 1, Max(Len(seq) + n, 0))

\* the rows of a sequence that satisfy a test, in order
RECURSIVE Filter(_, _)
Filter(seq, keep) ==
    IF seq = <<>> THEN <<>>
    ELSE (IF Head(seq) \in keep THEN <<Head(seq)>> ELSE <<>>) \o Filter(Tail(seq), keep)

\* np.dot(query_embedding, stored_vector) in hundredths: the similarity of
\* each stored chunk to each query text
Similarity(query, chunk_id) ==
    IF query = <<"a">>
    THEN (CASE chunk_id = "c1" -> 90 [] chunk_id = "c2" -> 60 [] OTHER -> 70)
    ELSE IF query = <<"c">>
    THEN (CASE chunk_id = "c1" -> 60 [] chunk_id = "c2" -> 60 [] OTHER -> 60)
    ELSE (CASE chunk_id = "c1" -> 40 [] chunk_id = "c2" -> 30 [] OTHER -> 55)

ScoreOf(chunk) == chunk.score
RerankScoreOf(chunk) == chunk.rerank_score

\* the stored chunk with its similarity to the query
Scored(query, row) ==
    [chunk_id |-> row.chunk_id, document_id |-> row.document_id,
     document_title |-> row.document_title, terms |-> row.terms, length |-> row.length,
     score |-> Similarity(query, row.chunk_id)]

\* a scan that does not look at document_ids
SimilarityScanUnscoped(db, query, document_ids, top_k, threshold) ==
    Bind(Filter(ChunkRows, {c \in Range(ChunkRows) : c.document_id \in db.documents}),
         LAMBDA rows :
    Bind([i \in 1..Len(rows) |-> Scored(query, rows[i])], LAMBDA scored :
    Bind(Filter(scored, {c \in Range(scored) : c.score >= threshold}),
         LAMBDA similarities :
    Bind(StableSort(similarities, ScoreOf, TRUE), LAMBDA sorted :
        Slice(sorted, top_k)))))

\* search_similar_chunks after the query embedding: scan, threshold, sort, top_k
SimilarityScan(db, query, document_ids, top_k, threshold) ==
    Bind(Filter(ChunkRows,
                {c \in Range(ChunkRows) :
                     /\ c.document_id \in db.documents
                     /\ (document_ids # {} => c.document_id \in document_ids)}),
         LAMBDA rows :
    Bind([i \in 1..Len(rows) |-> Scored(query, rows[i])], LAMBDA scored :
    Bind(Filter(scored, {c \in Range(scored) : c.score >= threshold}),
         LAMBDA similarities :
    Bind(StableSort(similarities, ScoreOf, TRUE), LAMBDA sorted :
        Slice(sorted, top_k)))))

Whitespace == {" ", "\n"}

\* str.split(): the maximal runs of characters that are not whitespace
SplitWords(text) ==
    LET starts == {i \in 1..Len(text) :
                      /\ text[i] \notin Whitespace
                      /\ i = 1 \/ text[i - 1] \in Whitespace}
        end(i) == CHOOSE j \in i..Len(text) :
                      /\ j = Len(text) \/ text[j + 1] \in Whitespace
                      /\ \A k \in i..j : text[k] \notin Whitespace
    IN  {Concat(SubSeq(text, i, end(i))) : i \in starts}

\* str.lower() of a word; the modelled texts are lower case but for these
Lower(word) ==
    CASE word = "Previous" -> "previous"
      [] word = "Current" -> "current"
      [] word = "User:" -> "user:"
      [] word = "Assistant:" -> "assistant:"
      [] word = "I" -> "i"
      [] OTHER -> word

\* set(query.lower().split())
QueryTerms(query) == {Lower(w) : w \in SplitWords(query)}

\* keyword match and length preference of one chunk, in hundredths
KeywordScore(query_terms, chunk) ==
    IF query_terms = {} THEN 0
    ELSE (100 * Cardinality(query_terms \cap chunk.terms)) \div Cardinality(query_terms)

LengthScore(chunk) ==
    IF chunk.length < 100 THEN 50 ELSE IF chunk.length > 1000 THEN 80 ELSE 100

Reranked(query_terms, chunk) ==
    [chunk_id |-> chunk.chunk_id, document_id |-> chunk.document_id,
     document_title |-> chunk.document_title, terms |-> chunk.terms,
     length |-> chunk.length, score |-> chunk.score,
     rerank_score |-> rerank_alpha * chunk.score
                      + rerank_beta * KeywordScore(query_terms, chunk)
                      + rerank_gamma * LengthScore(chunk)]

\* _rerank_chunks: alpha * vector + beta * keyword + gamma * length, in
\* thousandths; sort, top_k
_rerank_chunks(query, chunks, top_k) ==
    Bind(QueryTerms(query), LAMBDA query_terms :
    Bind([i \in 1..Len(chunks) |-> Reranked(query_terms, chunks[i])], LAMBDA ranked :
    Bind(StableSort(ranked, RerankScoreOf, TRUE), LAMBDA sorted :
        Slice(sorted, top_k))))

\* the end of _retrieve_chunks: rerank if enabled, else similar_chunks[:top_k]
RerankOrSlice(enabled, query, similar_chunks, top_k) ==
    IF enabled THEN _rerank_chunks(query, similar_chunks, top_k)
    ELSE Slice(similar_chunks, top_k)

\* _retrieve_chunks: project lookup, query embedding, scan, rerank; the steps
\* taken are listed as they are taken
_retrieve_chunks(db, self, query, project_id, top_k, model_fails) ==
    Bind({pd[2] : pd \in {x \in db.project_documents : x[1] = project_id.id}},
         LAMBDA document_ids :
        IF IsSet(project_id) /\ document_ids = {}
        THEN [raised |-> FALSE, chunks |-> <<>>, candidates |-> <<>>,
              steps |-> <<"retrieve">>, self |-> self]
        ELSE Bind(generate_embedding_single(self, query, TRUE, TRUE, model_fails),
                  LAMBDA embedded :
             IF embedded.raised
             THEN [raised |-> TRUE, chunks |-> <<>>, candidates |-> <<>>,
                   steps |-> <<"retrieve", "embed_query">>, self |-> embedded.self]
             ELSE Bind(SimilarityScan(db, query,
                                      IF IsSet(project_id) THEN document_ids ELSE {},
                                      top_k * 2, CANDIDATE_THRESHOLD),
                       LAMBDA similar_chunks :
                  IF similar_chunks = <<>>
                  THEN [raised |-> FALSE, chunks |-> <<>>, candidates |-> <<>>,
                        steps |-> <<"retrieve", "embed_query", "similarity_scan">>,
                        self |-> embedded.self]
                  ELSE IF rerank_enabled
                  THEN [raised |-> FALSE,
                        chunks |-> RerankOrSlice(TRUE, query, similar_chunks, top_k),
                        candidates |-> similar_chunks,
                        steps |-> <<"retrieve", "embed_query", "similarity_scan",
                                    "rerank">>,
                        self |-> embedded.self]
                  ELSE [raised |-> FALSE,
                        chunks |-> RerankOrSlice(FALSE, query, similar_chunks, top_k),
                        candidates |-> similar_chunks,
                        steps |-> <<"retrieve", "embed_query", "similarity_scan">>,
                        self |-> embedded.self])))

\* a test that lets no cached result through
NeverTruthy(v) == FALSE

\* the truth value Python gives a value in "if value:"
Truthy(v) ==
    CASE TypeOf(v) = "NoneType" -> FALSE
      [] TypeOf(v) \in {"dict", "list", "tuple", "ndarray"} -> Body(v) # <<>>
      [] TypeOf(v) = "str" -> Body(v) # ""
      [] TypeOf(v) \in {"int", "float"} -> Body(v) # 0
      [] OTHER -> Body(v)

\* _prepare_context: one numbered block per chunk, in order
_prepare_context(chunks) ==
    [i \in 1..Len(chunks) |-> <<i, chunks[i].document_title, chunks[i].chunk_id>>]

\* _build_prompt: the context, the question and the citation instruction
_build_prompt(query, context, include_sources) ==
    [query |-> query, context |-> context, cite |-> include_sources]

\* _fallback_response on a RAG prompt: the text between "Context:" and
\* "Question:" cut to its first three sentences, under the "Based on the
\* provided documents" header since it holds a "[Source" label; each chunk
\* text stands for one sentence with no ". " in it, so the blocks of the
\* context come back whole
_fallback_response(prompt) ==
    [text |-> Concat(<<"fallback", "/">>
                     \o [i \in 1..Len(prompt.context) |-> prompt.context[i][3]]),
     model |-> "fallback",
     usage |-> PyDict(<< <<PyStr("total_tokens"), PyInt(0)>> >>)]

\* a generate that passes the failure of the client on to its caller
generate_without_fallback(prompt, temperature, max_tokens, llm_answers) ==
    [text |-> "", model |-> "none", usage |-> PyDict(<<>>)]

\* LLMService.generate: the completion of the client, or the fallback text
\* when there is no client or the call fails; it never raises
generate(prompt, temperature, max_tokens, llm_answers) ==
    IF llm_answers
    THEN [text |-> Concat(Join(<<prompt.query,
                                 [i \in 1..Len(prompt.context) |-> prompt.context[i][3]],
                                 StrBool(prompt.cite), StrFloat(temperature),
                                 StrSigned(max_tokens)>>, <<"/">>)),
          model |-> "llm",
          usage |-> PyDict(<< <<PyStr("total_tokens"), PyInt(Len(prompt.context))>> >>)]
    ELSE _fallback_response(prompt)

\* _format_sources: numbered citations carrying the rerank score when there is one
_format_sources(chunks) ==
    PyList([i \in 1..Len(chunks) |->
               PyDict(<< <<PyStr("id"), PyInt(i)>>,
                         <<PyStr("document_id"), PyStr(Concat(chunks[i].document_id))>>,
                         <<PyStr("chunk_id"), PyStr(chunks[i].chunk_id)>>,
                         <<PyStr("score"),
                           PyFloat(IF "rerank_score" \in DOMAIN chunks[i]
                                   THEN chunks[i].rerank_score
                                   ELSE 10 * chunks[i].score)>> >>)])

\* the answer of a query that found no chunk, word by word
PlaceholderText ==
    <<"I", " ", "couldn't", " ", "find", " ", "any", " ", "relevant", " ",
      "information", " ", "in", " ", "the", " ", "documents", " ", "to", " ",
      "answer", " ", "your", " ", "question.">>

NoRelevantInformation ==
    PyDict(<< <<PyStr("answer"), PyStr(Concat(PlaceholderText))>>,
              <<PyStr("sources"), PyList(<<>>)>>,
              <<PyStr("chunks_used"), PyInt(0)>>,
              <<PyStr("model_used"), PyNone>> >>)

\* the response dictionary of an answered query
Response(answer, chunks, include_sources) ==
    PyDict(<< <<PyStr("answer"), PyStr(answer.text)>>,
              <<PyStr("sources"),
                IF include_sources THEN _format_sources(chunks) ELSE PyList(<<>>)>>,
              <<PyStr("chunks_used"), PyInt(Len(chunks))>>,
              <<PyStr("model_used"), PyStr(answer.model)>>,
              <<PyStr("usage"), answer.usage>> >>)

\* a query that caches whatever it responds with, the placeholder included
query_caching_every_response(db, self, req, model_fails, llm_answers) ==
    Bind(QueryCacheKey(req), LAMBDA key :
    Bind(CacheService_get(self, key, "json"), LAMBDA looked :
    Bind(AfterLookup(self, looked, req.use_cache), LAMBDA self1 :
    Bind(IF req.use_cache THEN <<"cache_lookup">> ELSE <<>>, LAMBDA checked :
        IF req.use_cache /\ Truthy(looked.value)
        THEN [raised |-> FALSE, hit |-> TRUE, response |-> looked.value,
              steps |-> checked \o <<"respond">>, chunks_used |-> 0, wrote |-> FALSE,
              chunks |-> <<>>, candidates |-> <<>>, self |-> self1]
        ELSE Bind(_retrieve_chunks(db, self1, req.query, req.project_id, req.top_k,
                                   model_fails),
                  LAMBDA got :
             IF got.raised
             THEN [raised |-> TRUE, hit |-> FALSE, response |-> PyNone,
                   steps |-> checked \o got.steps \o <<"raise">>, chunks_used |-> 0,
                   wrote |-> FALSE, chunks |-> <<>>, candidates |-> <<>>,
                   self |-> got.self]
             ELSE Bind(IF got.chunks = <<>> THEN NoRelevantInformation
                       ELSE Response(generate(_build_prompt(req.query,
                                                            _prepare_context(got.chunks),
                                                            req.include_sources),
                                              req.temperature, req.max_tokens,
                                              llm_answers),
                                     got.chunks, req.include_sources),
                       LAMBDA response :
                  Bind(CacheService_set(got.self, key, response, QUERY_TTL),
                       LAMBDA stored :
                      [raised |-> FALSE, hit |-> FALSE, response |-> response,
                       steps |-> checked \o got.steps
                                 \o (IF req.use_cache THEN <<"cache_write">> ELSE <<>>)
                                 \o <<"respond">>,
                       chunks_used |-> Len(got.chunks),
                       wrote |-> req.use_cache /\ stored.ok,
                       chunks |-> got.chunks, candidates |-> got.candidates,
                       self |-> IF req.use_cache THEN NextSelf(got.self, stored)
                                ELSE got.self])))))))

\* RAGService.query: what it returns, the steps it took in order, and the
\* cache service it leaves behind
query(db, self, req, model_fails, llm_answers) ==
    Bind(QueryCacheKey(req), LAMBDA key :
    Bind(CacheService_get(self, key, "json"), LAMBDA looked :
    Bind(AfterLookup(self, looked, req.use_cache), LAMBDA self1 :
    Bind(IF req.use_cache THEN <<"cache_lookup">> ELSE <<>>, LAMBDA checked :
        IF req.use_cache /\ Truthy(looked.value)
        THEN [raised |-> FALSE, hit |-> TRUE, response |-> looked.value,
              steps |-> checked \o <<"respond">>, chunks_used |-> 0, wrote |-> FALSE,
              chunks |-> <<>>, candidates |-> <<>>, self |-> self1]
        ELSE Bind(_retrieve_chunks(db, self1, req.query, req.project_id, req.top_k,
                                   model_fails),
                  LAMBDA got :
             IF got.raised
             THEN [raised |-> TRUE, hit |-> FALSE, response |-> PyNone,
                   steps |-> checked \o got.steps \o <<"raise">>, chunks_used |-> 0,
                   wrote |-> FALSE, chunks |-> <<>>, candidates |-> <<>>,
                   self |-> got.self]
             ELSE IF got.chunks = <<>>
             THEN [raised |-> FALSE, hit |-> FALSE, response |-> NoRelevantInformation,
                   steps |-> checked \o got.steps \o <<"respond">>, chunks_used |-> 0,
                   wrote |-> FALSE, chunks |-> <<>>, candidates |-> <<>>,
                   self |-> got.self]
             ELSE Bind(_prepare_context(got.chunks), LAMBDA context :
                  Bind(_build_prompt(req.query, context, req.include_sources),
                       LAMBDA prompt :
                  Bind(generate(prompt, req.temperature, req.max_tokens, llm_answers),
                       LAMBDA answer :
                  Bind(Response(answer, got.chunks, req.include_sources),
                       LAMBDA response :
                  Bind(CacheService_set(got.self, key, response, QUERY_TTL),
                       LAMBDA stored :
                      [raised |-> FALSE, hit |-> FALSE, response |-> response,
                       steps |-> checked \o got.steps
                                 \o <<"context_build", "generate">>
                                 \o (IF req.use_cache THEN <<"cache_write">> ELSE <<>>)
                                 \o <<"respond">>,
                       chunks_used |-> Len(got.chunks),
                       wrote |-> req.use_cache /\ stored.ok,
                       chunks |-> got.chunks, candidates |-> got.candidates,
                       self |-> IF req.use_cache THEN NextSelf(got.self, stored)
                                ELSE got.self]))))))))))

-----------------------------------------------------------------------------
(* Queries and the CRUD operations on projects and documents *)

MaxQueryOps == 3        \* queries and CRUD operations in one behaviour

Db == [documents |-> documents, project_documents |-> project_documents]

\* the parameters of a request that shape its answer
Params(req) ==
    [query |-> req.query, project_id |-> req.project_id, top_k |-> req.top_k,
     temperature |-> req.temperature, max_tokens |-> req.max_tokens,
     include_sources |-> req.include_sources]

Request(q, project_id, top_k, temperature, max_tokens, include_sources, use_cache) ==
    [query |-> q, project_id |-> project_id, top_k |-> top_k,
     temperature |-> temperature, max_tokens |-> max_tokens,
     include_sources |-> include_sources, use_cache |-> use_cache]

\* the requests made: one base request and requests that differ from it in
\* one parameter (the router passes no use_cache, so its requests have
\* caching on)
QueryRequests ==
    { Request(<<"a">>, Project(P1), 1, 7, 512, TRUE, TRUE),
      Request(<<"a">>, Project(P1), 2, 7, 512, TRUE, TRUE),
      Request(<<"a">>, NoProject, 1, 7, 512, TRUE, TRUE),
      Request(<<"b">>, Project(P1), 1, 7, 512, TRUE, TRUE),
      Request(<<"a">>, Project(P1), 1, 7, 512, TRUE, FALSE) }

\* what the embedding model does during a request
Environments == {"ok", "embedding_fails"}

\* the keys whose latest request looked into the cache and got the
\* placeholder answer, with nothing but CRUD operations since
Unanswered(l) ==
    IF l.op = "query"
    THEN IF /\ l.request.use_cache /\ ~l.hit /\ ~l.raised
            /\ l.response = NoRelevantInformation
         THEN {l.key} ELSE {}
    ELSE IF "unanswered" \in DOMAIN l THEN l.unanswered ELSE {}

\* query has returned r for the request
QueryReturned(req, key, r) ==
    /\ in_memory_cache' = r.self.in_memory_cache
    /\ redis_store' = r.self.redis_store
    /\ timers' = r.self.timers
    /\ cache_stats' = r.self.cache_stats
    /\ last' = [op |-> "query", request |-> req, key |-> key,
                raised |-> r.raised, hit |-> r.hit, response |-> r.response,
                steps |-> r.steps, chunks_used |-> r.chunks_used,
                present |-> key \in DOMAIN Store,
                origin |-> IF key \in DOMAIN computed_for
                           THEN {computed_for[key]} ELSE {},
                stale |-> key \in stale,
                unanswered |-> Unanswered(last)]
    /\ computed_for' = IF r.wrote THEN With(computed_for, key, Params(req))
                       ELSE computed_for
    /\ stale' = IF r.wrote THEN stale \ {key} ELSE stale
    /\ nOps' = nOps + 1
    /\ UNCHANGED <<cache_backend, redis_up, written, threadVars, dbVars>>

CallQuery(req, env) ==
    /\ nOps < MaxQueryOps
    /\ \E key \in {QueryCacheKey(req)} :
        \E r \in {query(Db, Self, req, env = "embedding_fails", TRUE)} :
            QueryReturned(req, key, r)

\* the query-cache keys of a project that are in the store
CachedQueriesOf(project_ids) ==
    {k \in DOMAIN Store :
        \E p \in project_ids :
            LET prefix == Namespace(T_query, p) \o <<":">> IN
            Len(k) > Len(prefix) /\ SubSeq(k, 1, Len(prefix)) = prefix}

\* a CRUD operation has returned; changed names the projects whose content it changed
AfterCrud(op, changed) ==
    /\ nOps < MaxQueryOps
    /\ nOps' = nOps + 1
    /\ last' = [op |-> op, changed |-> changed, unanswered |-> Unanswered(last)]
    /\ stale' = stale \cup CachedQueriesOf(changed)
    /\ UNCHANGED <<cacheVars, written, threadVars, computed_for>>

update_project(project_id, name) ==
    /\ IF project_id \in DOMAIN projects
       THEN /\ projects' = [projects EXCEPT ![project_id].name = name]
            /\ AfterCrud("update_project", {project_id})
       ELSE /\ UNCHANGED projects
            /\ AfterCrud("update_project", {})
    /\ UNCHANGED <<documents, project_documents, conversations, ingestVars>>

delete_project(project_id) ==
    /\ IF project_id \in DOMAIN projects
       THEN /\ projects' = Without(projects, {project_id})
            /\ project_documents' = {pd \in project_documents : pd[1] # project_id}
            /\ conversations' = Without(conversations,
                                        {v \in DOMAIN conversations :
                                             conversations[v].project_id = project_id})
            /\ AfterCrud("delete_project", {project_id})
       ELSE /\ UNCHANGED <<projects, project_documents, conversations>>
            /\ AfterCrud("delete_project", {})
    /\ UNCHANGED <<documents, ingestVars>>

add_document_to_project(project_id, document_id) ==
    /\ IF /\ project_id \in DOMAIN projects
          /\ document_id \in documents
          /\ <<project_id, document_id>> \notin project_documents
       THEN /\ project_documents' = project_documents \cup {<<project_id, document_id>>}
            /\ AfterCrud("add_document_to_project", {project_id})
       ELSE /\ UNCHANGED project_documents
            /\ AfterCrud("add_document_to_project", {})
    /\ UNCHANGED <<projects, documents, conversations, ingestVars>>

remove_document_from_project(project_id, document_id) ==
    /\ IF <<project_id, document_id>> \in project_documents
       THEN /\ project_documents' = project_documents \ {<<project_id, document_id>>}
            /\ AfterCrud("remove_document_from_project", {project_id})
       ELSE /\ UNCHANGED project_documents
            /\ AfterCrud("remove_document_from_project", {})
    /\ UNCHANGED <<projects, documents, conversations, ingestVars>>

\* db.delete(doc); db.commit(): the cascade removes the document's chunks,
\* their embeddings and the project links, and the commit makes durable
\* whatever the Session had pending
delete_document(doc_id) ==
    /\ IF doc_id \in documents
       THEN /\ documents' = documents \ {doc_id}
            /\ project_documents' = {pd \in project_documents : pd[2] # doc_id}
            /\ session' = DeleteCascade(session, doc_id)
            /\ tables' = DeleteCascade(session, doc_id)
            /\ AfterCrud("delete_document",
                         {pd[1] : pd \in {x \in project_documents : x[2] = doc_id}})
       ELSE /\ UNCHANGED <<documents, project_documents, tables, session>>
            /\ AfterCrud("delete_document", {})
    /\ UNCHANGED <<projects, conversations, contents, foreign_keys, next_id, returned,
                   status, task>>

QueryNext ==
    \/ \E req \in QueryRequests, env \in Environments : CallQuery(req, env)
    \/ update_project(P1, "n2")
    \/ delete_project(P1)
    \/ add_document_to_project(P1, D2)
    \/ remove_document_from_project(P1, D1)
    \/ delete_document(D1)
    \/ Tick
    \/ TimerFires

InitQuery == CacheInit /\ ObsInit /\ ThreadInit /\ DbInit

SpecQuery == InitQuery /\ [][QueryNext]_vars

\* parameter combinations, among them texts and ids that hold the separator
\* of the key string and ids that read like str(None) or the global namespace
KeyQueries == {<<"a">>, <<"b">>, <<"a", "|", "p", "1">>}
KeyProjects ==
    {NoProject, Project(<<>>), Project(T_global), Project(<<"N", "o", "n", "e">>),
     Project(P1), Project(P1 \o <<"|">> \o P1)}
KeySpace ==
    {Request(q, p, k, t, m, i, TRUE) :
        q \in KeyQueries, p \in KeyProjects, k \in {1, 2, 12}, t \in {0, 7},
        m \in {256, 512}, i \in BOOLEAN}

\* as many keys as parameter combinations
KeysInjective ==
    Cardinality({QueryCacheKey(r) : r \in KeySpace}) = Cardinality(KeySpace)

\* C1: requests that differ in query text, project scope, top_k, temperature,
\* max_tokens or include_sources have different full cache keys, and a
\* response served from the cache was written by a request with the same
\* parameters.
C1_DistinctRequestsDistinctKeys ==
    /\ KeysInjective
    /\ (last.op = "query" /\ last.hit) => last.origin = {Params(last.request)}

\* a request is served from the cache while the cache also holds the response
\* of a request with other parameters
C1_Witness ==
    /\ last.op = "query"
    /\ last.hit
    /\ \E k \in DOMAIN Store :
           k # last.key /\ k \in DOMAIN computed_for
              /\ computed_for[k] # Params(last.request)

Pipeline == <<"retrieve", "rerank", "context_build", "generate", "cache_write", "respond">>

CachingQueryReturned == last.op = "query" /\ last.request.use_cache /\ ~last.raised

C3_NoAnswerFromEntryCachedBeforeChange ==
    (last.op = "query" /\ last.hit) => ~last.stale

-----------------------------------------------------------------------------
(* POST /api/query: the router, conversations, and the similarity search *)

\* the rows a handler reads: projects and conversations besides the documents
RouterDb ==
    [projects |-> projects, documents |-> documents,
     project_documents |-> project_documents, conversations |-> conversations]

\* d.get(key, default) on a dict value
dict_get(d, key, default) ==
    Bind({i \in 1..Len(Body(d)) : Body(d)[i][1] = PyStr(key)}, LAMBDA at :
        IF at = {} THEN default ELSE Body(d)[CHOOSE i \in at : TRUE][2])

\* the text of a str value: the placeholder answer word by word, any other
\* answer as one word
TextOf(v) ==
    IF Body(v) = Concat(PlaceholderText) THEN PlaceholderText ELSE <<Body(v)>>

\* seq[-n:] for n > 0
LastN(seq, n) == SubSeq(seq, Max(Len(seq) - n, 0) + 1, Len(seq))

max_messages == 10

\* Message.created_at
CreatedAt(message) == message.created_at

\* messages.reverse()
Reversed(seq) == [i \in 1..Len(seq) |-> seq[Len(seq) + 1 - i]]

\* the order in which ORDER BY created_at DESC returns rows of one created_at:
\* the query names no second key, so it is left to the database
TieOrders == {"insertion", "reverse_insertion"}

\* order_by(Message.created_at.desc()) over the rows in insertion order
OrderByCreatedAtDesc(messages, ties) ==
    IF ties = "insertion" THEN StableSort(messages, CreatedAt, TRUE)
    ELSE Reversed(StableSort(messages, CreatedAt, FALSE))

\* "User: ..." or "Assistant: ..." paragraphs, one for each message
ContextOf(recent) ==
    Join([i \in 1..Len(recent) |->
             (IF recent[i].role = "user" THEN <<"User:", " ">>
              ELSE <<"Assistant:", " ">>) \o recent[i].text],
         <<"\n", "\n">>)

\* get_conversation_context: the first max_messages rows by created_at
\* descending, reversed
get_conversation_context(messages, ties) ==
    Bind(OrderByCreatedAtDesc(messages, ties), LAMBDA newest_first :
    Bind(Reversed(SubSeq(newest_first, 1, Min(max_messages, Len(newest_first)))),
         LAMBDA recent : ContextOf(recent)))

\* created_at = func.now(), to the second: the two rows of one commit carry
\* one value; every exchange of the model falls into a second of its own
Now(messages) == Len(messages)

\* the query with the conversation folded in
EnhancedQuery(conv_context, q) ==
    IF conv_context # <<>>
    THEN <<"Previous", " ", "conversation:", "\n">> \o conv_context
         \o <<"\n", "\n", "Current", " ", "question:", " ">> \o q
    ELSE q

\* query_with_conversation: the answer of query() on the enhanced query, and
\* the messages of the conversation after the user and assistant messages
\* were added; an exception of query() leaves the messages alone
query_with_conversation(db, self, messages, q, project_id, top_k, temperature, max_tokens, model_fails, llm_answers, ties) ==
    Bind(EnhancedQuery(get_conversation_context(messages, ties), q), LAMBDA enhanced_query :
    Bind(Request(enhanced_query, project_id, top_k, temperature, max_tokens, TRUE, TRUE),
         LAMBDA req :
    Bind(query(db, self, req, model_fails, llm_answers), LAMBDA r :
        [r |-> r, req |-> req,
         messages |-> IF r.raised THEN messages
                      ELSE messages
                           \o << [role |-> "user", text |-> q,
                                  created_at |-> Now(messages)],
                                 [role |-> "assistant",
                                  text |-> TextOf(dict_get(r.response, "answer",
                                                           PyNone)),
                                  created_at |-> Now(messages)] >>])))

\* search_similar_chunks: the query embedding, then the scan; an exception of
\* the embedding model is raised again
search_similar_chunks(db, self, q, document_ids, top_k, threshold, model_fails) ==
    Bind(generate_embedding_single(self, q, TRUE, TRUE, model_fails), LAMBDA embedded :
        IF embedded.raised
        THEN [raised |-> TRUE, results |-> <<>>, self |-> embedded.self]
        ELSE [raised |-> FALSE,
              results |-> SimilarityScan(db, q, document_ids, top_k, threshold),
              self |-> embedded.self])

\* the request body of POST /query
QueryRequest(q, project_id, conversation_id, top_k, temperature, max_tokens, include_sources) ==
    [query |-> q, project_id |-> project_id, conversation_id |-> conversation_id,
     top_k |-> top_k, temperature |-> temperature, max_tokens |-> max_tokens,
     include_sources |-> include_sources]

\* QueryResponse(...) built from the result dictionary
QueryResponse(result, conversation_id) ==
    [answer |-> dict_get(result, "answer", PyNone),
     sources |-> dict_get(result, "sources", PyList(<<>>)),
     chunks_used |-> dict_get(result, "chunks_used", PyNone),
     model_used |-> dict_get(result, "model_used", PyNone),
     usage |-> dict_get(result, "usage", PyDict(<<>>)),
     conversation_id |-> conversation_id]

\* str(uuid.uuid4()): an id no conversation has
uuid4(used) ==
    <<"v", DigitChar(CHOOSE n \in 2..9 :
                         /\ <<"v", DigitChar(n)>> \notin used
                         /\ \A m \in 2..(n - 1) : <<"v", DigitChar(m)>> \in used)>>

\* what a handler that did not reach the RAG service leaves behind
NotCalled(self) ==
    [raised |-> FALSE, hit |-> FALSE, response |-> PyNone, steps |-> <<>>,
     chunks_used |-> 0, wrote |-> FALSE, chunks |-> <<>>, candidates |-> <<>>,
     self |-> self]

\* an HTTPException raised inside the try block: the except clause catches it
\* and raises HTTPException(500) in its place
Failed(self, cause, convs) ==
    [status |-> 500, cause |-> cause, body |-> PyNone, called |-> FALSE,
     r |-> NotCalled(self), req |-> PyNone, conversations |-> convs]

\* the RAG service has returned or raised
Answered(r, req, conversation_id, convs) ==
    IF r.raised
    THEN [status |-> 500, cause |-> "query failed", body |-> PyNone, called |-> TRUE,
          r |-> r, req |-> req, conversations |-> convs]
    ELSE [status |-> 200, cause |-> "", body |-> QueryResponse(r.response, conversation_id),
          called |-> TRUE, r |-> r, req |-> req, conversations |-> convs]

\* what the embedding model and the generation backend do during a request
RouterEnvironments == {"ok", "embedding_fails", "llm_unconfigured", "llm_raises"}

\* the handler of POST /query
post_query(db, self, request, env, ties) ==
    LET model_fails == env = "embedding_fails"
        llm_answers == env \notin {"llm_unconfigured", "llm_raises"}
    IN
    IF IsSet(request.project_id) /\ request.project_id.id \notin DOMAIN db.projects
    THEN Failed(self, "Project not found", db.conversations)
    ELSE IF IsSet(request.conversation_id)
    THEN IF request.conversation_id.id \notin DOMAIN db.conversations
         THEN Failed(self, "Conversation not found", db.conversations)
         ELSE Bind(db.conversations[request.conversation_id.id], LAMBDA conversation :
              Bind(IF ~IsSet(request.project_id) THEN Project(conversation.project_id)
                   ELSE request.project_id,
                   LAMBDA project_id :
              Bind(query_with_conversation(db, self, conversation.messages,
                                           request.query, project_id, request.top_k,
                                           request.temperature, request.max_tokens,
                                           model_fails, llm_answers, ties),
                   LAMBDA c :
                  Answered(c.r, c.req, request.conversation_id,
                           [db.conversations
                                EXCEPT ![request.conversation_id.id].messages =
                                           c.messages]))))
    ELSE IF IsSet(request.project_id)
    THEN Bind(uuid4(DOMAIN db.conversations), LAMBDA id :
         Bind(query_with_conversation(db, self, <<>>, request.query,
                                      request.project_id, request.top_k,
                                      request.temperature, request.max_tokens,
                                      model_fails, llm_answers, ties),
              LAMBDA c :
             Answered(c.r, c.req, Project(id),
                      With(db.conversations, id,
                           [project_id |-> request.project_id.id,
                            messages |-> c.messages]))))
    ELSE Bind(Request(request.query, request.project_id, request.top_k,
                      request.temperature, request.max_tokens,
                      request.include_sources, TRUE),
              LAMBDA req :
         Bind(query(db, self, req, model_fails, llm_answers), LAMBDA r :
             Answered(r, req, request.conversation_id, db.conversations)))

\* the documents linked to a project
LinkedDocuments(project_id) ==
    {pd[2] : pd \in {x \in project_documents : x[1] = project_id.id}}

\* the handler has returned h
RouterReturned(request, env, ties, h) ==
    /\ in_memory_cache' = h.r.self.in_memory_cache
    /\ redis_store' = h.r.self.redis_store
    /\ timers' = h.r.self.timers
    /\ cache_stats' = h.r.self.cache_stats
    /\ conversations' = h.conversations
    /\ last' = [op |-> "post_query", request |-> request, env |-> env,
                ties |-> ties, before |-> conversations, status |-> h.status, cause |-> h.cause, body |-> h.body,
                called |-> h.called, req |-> h.req, raised |-> h.r.raised,
                hit |-> h.r.hit, response |-> h.r.response, steps |-> h.r.steps,
                chunks |-> h.r.chunks, candidates |-> h.r.candidates,
                linked |-> IF h.called THEN LinkedDocuments(h.req.project_id) ELSE {},
                documents |-> documents, known_projects |-> DOMAIN projects,
                known_conversations |-> DOMAIN conversations]
    /\ computed_for' = IF h.r.wrote
                       THEN With(computed_for, QueryCacheKey(h.req), Params(h.req))
                       ELSE computed_for
    /\ stale' = IF h.r.wrote THEN stale \ {QueryCacheKey(h.req)} ELSE stale
    /\ nOps' = nOps + 1
    /\ UNCHANGED <<cache_backend, redis_up, written, threadVars, projects, documents,
                   project_documents, ingestVars>>

PostQuery(request, env, ties) ==
    /\ nOps < MaxQueryOps
    /\ \E h \in {post_query(RouterDb, Self, request, env, ties)} :
           RouterReturned(request, env, ties, h)

\* the requests sent: with and without a project and a conversation, for
\* records that exist and records that do not, with top_k above, at and
\* below zero
RouterRequests ==
    { QueryRequest(<<"a">>, NoProject, NoProject, 1, 7, 512, TRUE),
      QueryRequest(<<"a">>, NoProject, NoProject, 0, 7, 512, TRUE),
      QueryRequest(<<"a">>, NoProject, NoProject, -1, 7, 512, TRUE),
      QueryRequest(<<"a">>, NoProject, NoProject, 2, 7, 512, FALSE),
      QueryRequest(<<"a">>, Project(P1), NoProject, 1, 7, 512, TRUE),
      QueryRequest(<<"a">>, Project(P1), Project(V1), 2, 7, 512, TRUE),
      QueryRequest(<<"a">>, NoProject, Project(V1), 1, 7, 512, TRUE),
      QueryRequest(<<"b">>, Project(P1), NoProject, 2, 7, 512, TRUE),
      QueryRequest(<<"a">>, Project(P2), NoProject, 1, 7, 512, TRUE),
      QueryRequest(<<"a">>, Project(P3), NoProject, 1, 7, 512, TRUE),
      QueryRequest(<<"a">>, NoProject, Project(V9), 1, 7, 512, TRUE) }

RouterNext ==
    \/ \E request \in RouterRequests, env \in RouterEnvironments :
           PostQuery(request, env, "insertion")
    \/ add_document_to_project(P1, D2)
    \/ remove_document_from_project(P1, D1)
    \/ delete_project(P1)

\* the handler on the in-process cache; SpecQuery takes both backends
InitRouter == InitQuery /\ cache_backend = "none"

SpecRouter == InitRouter /\ [][RouterNext]_vars

\* the search as a service call of its own
SearchReturned(q, document_ids, top_k, threshold, r) ==
    /\ in_memory_cache' = r.self.in_memory_cache
    /\ redis_store' = r.self.redis_store
    /\ timers' = r.self.timers
    /\ cache_stats' = r.self.cache_stats
    /\ last' = [op |-> "search_similar_chunks", query |-> q,
                document_ids |-> document_ids, top_k |-> top_k,
                threshold |-> threshold, raised |-> r.raised, results |-> r.results,
                documents |-> documents]
    /\ nOps' = nOps + 1
    /\ UNCHANGED <<cache_backend, redis_up, written, threadVars, dbVars, queryObsVars>>

MaxSearchOps == 1       \* similarity searches in one behaviour before the queries

CallSearchSimilarChunks(q, document_ids, top_k, threshold, env) ==
    /\ nOps < MaxSearchOps
    /\ \E r \in {search_similar_chunks(Db, Self, q, document_ids, top_k, threshold,
                                       env = "embedding_fails")} :
        SearchReturned(q, document_ids, top_k, threshold, r)

SearchQueries == {<<"a">>, <<"c">>}
SearchScopes == {{}, {D1}, {D1, D2}, {D3}}
SearchCounts == {0, 1, 2, 4}
SearchThresholds == {0, 60, 95}

\* queries through the RAG path, for each sign of top_k
SearchRequests ==
    { QueryRequest(<<"a">>, NoProject, NoProject, 1, 7, 512, TRUE),
      QueryRequest(<<"a">>, NoProject, NoProject, 0, 7, 512, TRUE),
      QueryRequest(<<"a">>, NoProject, NoProject, -1, 7, 512, TRUE),
      QueryRequest(<<"c">>, NoProject, NoProject, 1, 7, 512, TRUE) }

SearchNext ==
    \/ \E q \in SearchQueries, document_ids \in SearchScopes, top_k \in SearchCounts,
          threshold \in SearchThresholds, env \in Environments :
            CallSearchSimilarChunks(q, document_ids, top_k, threshold, env)
    \/ \E request \in SearchRequests : PostQuery(request, "ok", "insertion")
    \/ delete_document(D1)

SpecSearch == InitQuery /\ [][SearchNext]_vars

-----------------------------------------------------------------------------
(* Properties of the query path behind the router *)

\* the handler has called the RAG service
QueryCalled == last.op = "post_query" /\ last.called

\* the stored embeddings a query may see: those of the existing documents, and
\* for a query on a project those of the documents linked to it
InScope ==
    {c \in Range(ChunkRows) :
        /\ c.document_id \in last.documents
        /\ (IsSet(last.req.project_id) => c.document_id \in last.linked)}

\* the project has no linked document, or its documents have no stored
\* embedding, or no stored embedding in scope reaches the threshold
NothingToRetrieve ==
    \/ IsSet(last.req.project_id) /\ last.linked = {}
    \/ IsSet(last.req.project_id) /\ InScope = {}
    \/ \A c \in InScope : Similarity(last.req.query, c.chunk_id) < CANDIDATE_THRESHOLD

PlaceholderReturned ==
    /\ ~last.raised
    /\ last.status = 200
    /\ last.response = NoRelevantInformation
    /\ last.body.chunks_used = PyInt(0)
    /\ last.body.sources = PyList(<<>>)
    /\ last.body.answer = PyStr(Concat(PlaceholderText))
    /\ "generate" \notin Range(last.steps)

\* C11: a query that has nothing to retrieve (no linked document, no stored
\* embedding, no candidate at the threshold), made while the embedding model
\* works, returns the placeholder answer with chunks_used 0 and no sources,
\* raises nothing and does not call the generation backend.
C11_NothingToRetrieveGivesPlaceholder ==
    (QueryCalled /\ last.env # "embedding_fails" /\ NothingToRetrieve)
        => PlaceholderReturned

\* the same for the queries that were not answered from the cache
PlaceholderOnMiss ==
    (QueryCalled /\ last.env # "embedding_fails" /\ NothingToRetrieve /\ ~last.hit)
        => PlaceholderReturned

\* nothing to retrieve and the placeholder came back
PlaceholderOnMissWitness ==
    /\ QueryCalled /\ NothingToRetrieve /\ ~last.hit /\ PlaceholderReturned
    /\ IsSet(last.req.project_id) /\ last.linked # {} /\ InScope = {}

\* C12: a request with top_k <= 0 is rejected with a validation error before
\* the cache lookup, the query embedding and the retrieval.
C12_NonPositiveTopKRejected ==
    (last.op = "post_query" /\ last.request.top_k <= 0)
        => /\ last.status = 422
           /\ ~last.called
           /\ last.steps = <<>>

\* the project or the conversation named by the request does not exist
NotFound ==
    /\ last.op = "post_query"
    /\ \/ /\ IsSet(last.request.project_id)
          /\ last.request.project_id.id \notin last.known_projects
       \/ /\ IsSet(last.request.conversation_id)
          /\ last.request.conversation_id.id \notin last.known_conversations

\* C13: a request whose project_id or conversation_id names no record is
\* answered with a not-found error: status 404, which is neither the status of
\* an internal failure nor a 200 with the empty answer.
C13_MissingRecordIsNotFound == NotFound => last.status = 404

\* a missing record never reaches the RAG service
MissingRecordStopsTheHandler == NotFound => ~last.called /\ last.status = 500

\* the generation backend is unconfigured or raises, and generate was called
GenerationFailed ==
    /\ QueryCalled
    /\ last.env \in {"llm_unconfigured", "llm_raises"}
    /\ "generate" \in Range(last.steps)

\* one field of each source of a response
SourceField(sources, field) ==
    [i \in 1..Len(Body(sources)) |-> dict_get(Body(sources)[i], field, PyNone)]

\* C14: when the generation backend is unconfigured or its call raises, the
\* query still returns: status 200, model_used "fallback", chunks_used the
\* number of retrieved chunks, the sources (when asked for) naming exactly the
\* retrieved chunks in order, and an answer made of the context blocks of
\* those chunks.
C14_FallbackKeepsRetrievedChunks ==
    GenerationFailed
        => /\ ~last.raised
           /\ last.status = 200
           /\ last.body.model_used = PyStr("fallback")
           /\ last.body.chunks_used = PyInt(Len(last.chunks))
           /\ last.chunks # <<>>
           /\ last.body.sources =
                  (IF last.req.include_sources THEN dict_get(last.response, "sources", PyNone)
                   ELSE PyList(<<>>))
           /\ last.req.include_sources
                  => SourceField(last.body.sources, "chunk_id")
                         = [i \in 1..Len(last.chunks) |-> PyStr(last.chunks[i].chunk_id)]
           /\ last.body.answer
                  = PyStr(Concat(<<"fallback", "/">>
                                 \o [i \in 1..Len(last.chunks) |-> last.chunks[i].chunk_id]))

\* the backend raised on a query that had retrieved two chunks
C14_Witness ==
    /\ GenerationFailed
    /\ last.env = "llm_raises"
    /\ Len(last.chunks) = 2
    /\ last.body.model_used = PyStr("fallback")

\* the stored embeddings a search may return: those of existing documents,
\* inside document_ids when that is given, with a similarity at the threshold
Qualifying ==
    {c \in Range(ChunkRows) :
        /\ c.document_id \in last.documents
        /\ (last.document_ids # {} => c.document_id \in last.document_ids)
        /\ Similarity(last.query, c.chunk_id) >= last.threshold}

SearchReturnedResults == last.op = "search_similar_chunks" /\ ~last.raised

\* descending order, nothing below the threshold, the best of the qualifying
Ranked ==
    /\ \A i \in 1..(Len(last.results) - 1) :
            last.results[i].score >= last.results[i + 1].score
    /\ \A i \in 1..Len(last.results) :
            /\ last.results[i].score >= last.threshold
            /\ last.results[i].score = Similarity(last.query, last.results[i].chunk_id)
            /\ \E c \in Qualifying : c.chunk_id = last.results[i].chunk_id
    /\ \A i, j \in 1..Len(last.results) :
            i # j => last.results[i].chunk_id # last.results[j].chunk_id
    /\ \A c \in Qualifying :
            (\A i \in 1..Len(last.results) : last.results[i].chunk_id # c.chunk_id)
                => \A i \in 1..Len(last.results) :
                        last.results[i].score >= Similarity(last.query, c.chunk_id)

\* the stored embeddings in the scope of a query that reach the threshold
\* of the RAG path
QualifyingInScope ==
    {c \in InScope : Similarity(last.req.query, c.chunk_id) >= CANDIDATE_THRESHOLD}

\* a query that went through the retrieval
Retrieval == QueryCalled /\ ~last.raised /\ ~last.hit

\* C15: search_similar_chunks returns its candidates in descending order of
\* similarity, none below the threshold, and exactly the min(requested count,
\* number qualifying) best of the qualifying candidates; the RAG path asks for
\* 2 * top_k candidates and uses at most top_k chunks.
C15_SearchReturnsTheBestInOrder ==
    /\ SearchReturnedResults
           => /\ Ranked
              /\ Len(last.results) = Min(last.top_k, Cardinality(Qualifying))
    /\ Retrieval
           => /\ Len(last.candidates)
                    = Min(2 * last.req.top_k, Cardinality(QualifyingInScope))
              /\ Len(last.chunks) <= last.req.top_k

\* the same for the queries whose top_k is not negative
BestInOrderForCounts ==
    /\ SearchReturnedResults
           => /\ Ranked
              /\ Len(last.results) = Min(last.top_k, Cardinality(Qualifying))
    /\ (Retrieval /\ last.req.top_k >= 0)
           => /\ Len(last.candidates)
                    = Min(2 * last.req.top_k, Cardinality(QualifyingInScope))
              /\ Len(last.chunks) <= last.req.top_k

\* a search cut by its count while more candidates qualified
BestInOrderWitness ==
    /\ SearchReturnedResults
    /\ last.top_k = 2
    /\ Cardinality(Qualifying) = 3
    /\ Len(last.results) = 2

\* a retrieval for a project
ScopedRetrieval ==
    QueryCalled /\ ~last.hit /\ ~last.raised /\ IsSet(last.req.project_id)

\* C16: in a query on project P every candidate of the search, every chunk
\* used for the context and every source listed belongs to a document that
\* is linked to P when the retrieval runs.
C16_ChunksComeFromLinkedDocuments ==
    ScopedRetrieval
        => /\ \A i \in 1..Len(last.candidates) :
                  last.candidates[i].document_id \in last.linked
           /\ \A i \in 1..Len(last.chunks) : last.chunks[i].document_id \in last.linked
           /\ \A d \in Range(SourceField(last.body.sources, "document_id")) :
                  \E doc \in last.linked : d = PyStr(Concat(doc))

\* chunks were used while a document outside the project held a chunk that
\* reaches the threshold
C16_Witness ==
    /\ ScopedRetrieval
    /\ last.chunks # <<>>
    /\ \E c \in Range(ChunkRows) :
          /\ c.document_id \in last.documents \ last.linked
          /\ Similarity(last.req.query, c.chunk_id) >= CANDIDATE_THRESHOLD

-----------------------------------------------------------------------------
(* ChunkingService: sentence splitting and the chunkers                      *)

\* settings.chunk_size / settings.chunk_overlap
settings_chunk_size == 512
settings_chunk_overlap == 50

\* ChunkingService.__init__: "chunk_size or settings.chunk_size", so that None
\* and 0 both give the setting
ChunkingService(chunk_size, chunk_overlap) ==
    [chunk_size |-> IF chunk_size # 0 THEN chunk_size ELSE settings_chunk_size,
     chunk_overlap |-> IF chunk_overlap # 0 THEN chunk_overlap
                       ELSE settings_chunk_overlap]

\* [.!?] and [A-Z] over the characters of the modelled texts; the texts hold
\* none of the abbreviations (Dr, Mr, ...) that the first substitution guards
Punctuation == {".", "!", "?"}
Uppercase == {"A", "B", "C"}

\* the last index of the whitespace run that starts at i
RECURSIVE RunEnd(_, _)
RunEnd(text, i) ==
    IF i + 1 <= Len(text) /\ text[i + 1] \in Whitespace THEN RunEnd(text, i + 1) ELSE i

\* re.split(r'(?<=[.!?])\s+(?=[A-Z])', text), from index i on, piece being the
\* characters read since the last split
RECURSIVE re_split(_, _, _)
re_split(text, i, piece) ==
    IF i > Len(text) THEN <<piece>>
    ELSE IF /\ text[i] \in Whitespace
            /\ i > 1
            /\ text[i - 1] \in Punctuation
            /\ RunEnd(text, i) < Len(text)
            /\ text[RunEnd(text, i) + 1] \in Uppercase
    THEN <<piece>> \o re_split(text, RunEnd(text, i) + 1, <<>>)
    ELSE re_split(text, i + 1, Append(piece, text[i]))

RECURSIVE lstrip(_)
lstrip(text) ==
    IF text # <<>> /\ Head(text) \in Whitespace THEN lstrip(Tail(text)) ELSE text

RECURSIVE rstrip(_)
rstrip(text) ==
    IF text # <<>> /\ text[Len(text)] \in Whitespace
    THEN rstrip(SubSeq(text, 1, Len(text) - 1))
    ELSE text

strip(text) == rstrip(lstrip(text))

\* [s.strip() for s in sentences if s.strip()]
RECURSIVE StripAll(_)
StripAll(parts) ==
    IF parts = <<>> THEN <<>>
    ELSE (IF strip(Head(parts)) # <<>> THEN <<strip(Head(parts))>> ELSE <<>>)
         \o StripAll(Tail(parts))

_split_sentences(text) == Bind(re_split(text, 1, <<>>), LAMBDA parts : StripAll(parts))

\* a chunker that numbers every chunk alike
SameChunkIndex(chunk_index) == chunk_index

\* chunk_index += 1
NextChunkIndex(chunk_index) == chunk_index + 1

\* a chunker that keeps the first collected sentence only
ClosedChunkOfFirst(st) ==
    [text |-> st.current_chunk[1],
     metadata |-> [chunk_index |-> st.chunk_index, total_chunks |-> 0,
                   start_char |-> st.char_position - st.current_length,
                   end_char |-> st.char_position]]

\* the chunk closed from the sentences collected so far
ClosedChunk(st) ==
    [text |-> Join(st.current_chunk, <<" ">>),
     metadata |-> [chunk_index |-> st.chunk_index, total_chunks |-> 0,
                   start_char |-> st.char_position - st.current_length,
                   end_char |-> st.char_position]]

\* one pass of the loop over the sentences
TextStep(self, st, sentence) ==
    Bind(IF st.current_length + Len(sentence) > self.chunk_size /\ st.current_chunk # <<>>
         THEN [chunks |-> Append(st.chunks, ClosedChunk(st)),
               current_chunk |->
                   IF self.chunk_overlap > 0 /\ Len(st.current_chunk) > 1
                   THEN <<st.current_chunk[Len(st.current_chunk)]>> ELSE <<>>,
               current_length |->
                   IF self.chunk_overlap > 0 /\ Len(st.current_chunk) > 1
                   THEN Len(st.current_chunk[Len(st.current_chunk)]) ELSE 0,
               chunk_index |-> NextChunkIndex(st.chunk_index),
               char_position |-> st.char_position]
         ELSE st,
         LAMBDA closed :
        [chunks |-> closed.chunks,
         current_chunk |-> Append(closed.current_chunk, sentence),
         current_length |-> closed.current_length + Len(sentence) + 1,
         chunk_index |-> closed.chunk_index,
         char_position |-> closed.char_position + Len(sentence) + 1])

RECURSIVE TextLoop(_, _, _)
TextLoop(self, st, sentences) ==
    IF sentences = <<>> THEN st
    ELSE Bind(TextStep(self, st, Head(sentences)),
              LAMBDA next : TextLoop(self, next, Tail(sentences)))

\* chunk["metadata"].total_chunks = len(chunks), for every chunk
WithTotal(chunks) ==
    [i \in 1..Len(chunks) |->
        [chunks[i] EXCEPT !.metadata.total_chunks = Len(chunks)]]

_chunk_text_content(self, text) ==
    Bind(_split_sentences(text), LAMBDA sentences :
        IF sentences = <<>> THEN <<>>
        ELSE Bind(TextLoop(self, [chunks |-> <<>>, current_chunk |-> <<>>,
                                  current_length |-> 0, chunk_index |-> 0,
                                  char_position |-> 0], sentences),
                  LAMBDA st :
             WithTotal(IF st.current_chunk # <<>>
                       THEN Append(st.chunks, ClosedChunk(st)) ELSE st.chunks)))

\* the chunk closed from the transcript segments collected so far
ClosedSegments(st, total) ==
    [text |-> Join(st.current_chunk_text, <<" ">>),
     metadata |-> [chunk_index |-> st.chunk_index, total_chunks |-> total,
                   start_char |-> st.current_chunk_segments[1].start,
                   end_char |-> st.current_chunk_segments[
                                    Len(st.current_chunk_segments)].end,
                   timestamp_start |-> st.current_chunk_segments[1].start,
                   timestamp_end |-> st.current_chunk_segments[
                                         Len(st.current_chunk_segments)].end]]

\* one pass of the loop over the segments
SegmentStep(self, st, segment) ==
    Bind(IF /\ st.current_length + Len(segment.text) > self.chunk_size
            /\ st.current_chunk_text # <<>>
         THEN [chunks |-> Append(st.chunks, ClosedSegments(st, 0)),
               current_chunk_text |-> <<>>, current_chunk_segments |-> <<>>,
               current_length |-> 0, chunk_index |-> NextChunkIndex(st.chunk_index)]
         ELSE st,
         LAMBDA closed :
        [chunks |-> closed.chunks,
         current_chunk_text |-> Append(closed.current_chunk_text, segment.text),
         current_chunk_segments |-> Append(closed.current_chunk_segments, segment),
         current_length |-> closed.current_length + Len(segment.text) + 1,
         chunk_index |-> closed.chunk_index])

RECURSIVE SegmentLoop(_, _, _)
SegmentLoop(self, st, segments) ==
    IF segments = <<>> THEN st
    ELSE Bind(SegmentStep(self, st, Head(segments)),
              LAMBDA next : SegmentLoop(self, next, Tail(segments)))

\* the estimated timestamps of the text fallback: i * duration / len(chunks),
\* kept as the pair <<numerator, denominator>>
WithEstimatedTimestamps(chunks, duration) ==
    [i \in 1..Len(chunks) |->
        [text |-> chunks[i].text,
         metadata |-> [chunk_index |-> chunks[i].metadata.chunk_index,
                       total_chunks |-> chunks[i].metadata.total_chunks,
                       start_char |-> chunks[i].metadata.start_char,
                       end_char |-> chunks[i].metadata.end_char,
                       timestamp_start |-> <<(i - 1) * duration, Len(chunks)>>,
                       timestamp_end |-> <<i * duration, Len(chunks)>>]]]

\* _chunk_youtube_content: by transcript segments when meta_json has them,
\* else the text chunker with timestamps estimated from the duration
_chunk_youtube_content(self, document) ==
    IF "segments" \in DOMAIN document.meta_json
    THEN Bind(SegmentLoop(self, [chunks |-> <<>>, current_chunk_text |-> <<>>,
                                 current_chunk_segments |-> <<>>,
                                 current_length |-> 0, chunk_index |-> 0],
                          document.meta_json.segments),
              LAMBDA st :
         WithTotal(IF st.current_chunk_text # <<>>
                   THEN Append(st.chunks, ClosedSegments(st, Len(st.chunks) + 1))
                   ELSE st.chunks))
    ELSE Bind(_chunk_text_content(self, document.content), LAMBDA chunks :
         IF "duration" \in DOMAIN document.meta_json
         THEN WithEstimatedTimestamps(chunks, document.meta_json.duration)
         ELSE chunks)

-----------------------------------------------------------------------------
(* Chunking as a function of its input *)

MaxSentences == 3       \* sentences in a chunked text
MaxSegments == 3        \* transcript segments of a chunked video

Sentences ==
    { <<"A", ".">>, <<"B", "b", "b", "!">>, <<"C", "c", "c", "c", "c", "c", "?">> }

\* texts of up to MaxSentences sentences, and texts that are empty, blank,
\* padded, separated by several blanks, or not split at a lower-case start
ChunkTexts ==
    {Join(ss, <<" ">>) : ss \in SeqsUpTo(Sentences, MaxSentences)}
    \cup { <<" ">>,
           <<" ", "A", ".", " ">>,
           <<"A", ".", " ", "\n", "A", ".">>,
           <<"b", ".", " ", "b", ".", " ", "A", ".">> }

ChunkSizes == {0, 5, 8}
ChunkOverlaps == {0, 1, 4}

SegmentTexts == { <<>>, <<"a", "b">>, <<"a", "b", "c", "d", "e", "f">> }

\* the segments of a transcript: segment i runs from second i - 1 to second i
Transcripts ==
    { [i \in 1..Len(ts) |-> [text |-> ts[i], start |-> i - 1, end |-> i]] :
          ts \in SeqsUpTo(SegmentTexts, MaxSegments) }

\* the inputs of one chunking call
ChunkInputs ==
    { [op |-> "input", path |-> "text", text |-> t, chunk_size |-> n, chunk_overlap |-> o] :
          t \in ChunkTexts, n \in ChunkSizes, o \in ChunkOverlaps }
    \cup
    { [op |-> "input", path |-> "youtube", chunk_size |-> n, chunk_overlap |-> 1,
       document |-> [content |-> Join(<<>>, <<>>), meta_json |-> [segments |-> segs]]] :
          segs \in Transcripts, n \in ChunkSizes }
    \cup
    { [op |-> "input", path |-> "youtube", chunk_size |-> n, chunk_overlap |-> 1,
       document |-> [content |-> t, meta_json |-> [duration |-> 60]]] :
          t \in {Join(ss, <<" ">>) : ss \in SeqsUpTo(Sentences, 2)}, n \in ChunkSizes }

\* _chunk_text_content is called on the text, twice
CallChunkTextContent ==
    /\ last.op = "input" /\ last.path = "text"
    /\ \E self \in {ChunkingService(last.chunk_size, last.chunk_overlap)} :
        last' = [op |-> "_chunk_text_content", self |-> self, text |-> last.text,
                 sentences |-> _split_sentences(last.text),
                 chunks |-> _chunk_text_content(self, last.text),
                 again |-> _chunk_text_content(self, last.text)]
    /\ nOps' = nOps + 1
    /\ UNCHANGED <<cacheVars, written, nonCacheVars>>

\* _chunk_youtube_content is called on the document, twice
CallChunkYoutubeContent ==
    /\ last.op = "input" /\ last.path = "youtube"
    /\ \E self \in {ChunkingService(last.chunk_size, last.chunk_overlap)} :
        last' = [op |-> "_chunk_youtube_content", self |-> self,
                 document |-> last.document,
                 chunks |-> _chunk_youtube_content(self, last.document),
                 again |-> _chunk_youtube_content(self, last.document)]
    /\ nOps' = nOps + 1
    /\ UNCHANGED <<cacheVars, written, nonCacheVars>>

ChunkNext == CallChunkTextContent \/ CallChunkYoutubeContent

InitChunk ==
    /\ CacheInit /\ cache_backend = "none"
    /\ written = EmptyMap /\ nOps = 0
    /\ last \in ChunkInputs
    /\ ThreadInit /\ DbInit

SpecChunk == InitChunk /\ [][ChunkNext]_vars

\* a chunker has returned
Chunked == last.op \in {"_chunk_text_content", "_chunk_youtube_content"}

SegmentsWitness ==
    /\ last.op = "_chunk_youtube_content"
    /\ "segments" \in DOMAIN last.document.meta_json
    /\ Len(last.chunks) = 2

\* C18: two consecutive chunks of _chunk_text_content share at most
\* chunk_overlap characters: end_char of the first minus start_char of the
\* second is never above chunk_overlap.
C18_OverlapAtMostChunkOverlap ==
    last.op = "_chunk_text_content"
        => \A i \in 1..(Len(last.chunks) - 1) :
               last.chunks[i].metadata.end_char - last.chunks[i + 1].metadata.start_char
                   <= last.self.chunk_overlap

\* what the chunker does instead: consecutive chunks share nothing, or the
\* whole last sentence of the first chunk, whatever its length
SharedTextIsOneSentence ==
    last.op = "_chunk_text_content"
        => \A i \in 1..(Len(last.chunks) - 1) :
               \/ last.chunks[i].metadata.end_char
                      - last.chunks[i + 1].metadata.start_char <= 0
               \/ \E k \in 1..Len(last.sentences) :
                      last.chunks[i].metadata.end_char
                          - last.chunks[i + 1].metadata.start_char
                              \in {Len(last.sentences[k]), Len(last.sentences[k]) + 1}

-----------------------------------------------------------------------------
(* Ingestion: chunk_document, embed_chunks and delete_document on one        *)
(* Session                                                                   *)

MaxIngestOps == 3       \* ingestion calls in one behaviour

\* the rows and settings a call on the Session reads
IngestDb ==
    [documents |-> documents, contents |-> contents, session |-> session,
     tables |-> tables, foreign_keys |-> foreign_keys, next_id |-> next_id]

\* the service of the model cuts after five characters and keeps one sentence
IngestChunker == ChunkingService(5, 1)

\* str(uuid.uuid4()) for the n-th document accepted for ingestion
UploadId(n) == <<"d", DigitChar(n + 3)>>

\* Document.title
DocumentTitle ==
    (D1 :> <<"t", "1">>) @@ (D2 :> <<"t", "2">>) @@ (D3 :> <<>>)
    @@ [d \in {UploadId(n) : n \in 1..6} |-> <<"t">>]

\* str(uuid.uuid4()) for the n-th chunk or embedding row
RowId(n) == Concat(<<"u">> \o StrInt(n))

\* the Chunk rows chunk_document builds from chunks_data, ids drawn after n
NewChunks(chunks_data, document_id, n) ==
    [i \in 1..Len(chunks_data) |->
        [id |-> RowId(n + i), document_id |-> document_id,
         chunk_index |-> chunks_data[i].metadata.chunk_index,
         text |-> chunks_data[i].text]]

\* what can go wrong in a run of chunk_document
ChunkFaults == {"none", "chunker_raises", "commit_raises"}

\* chunk_document(db, document_id): the rows it returns, and the Session and
\* the committed tables it leaves. The bulk DELETE is a statement on the
\* chunks table alone; the pdf and url chunkers return the chunks of
\* _chunk_text_content with page and heading metadata added
chunk_document(db, self, document_id, fault) ==
    IF document_id \notin db.documents
    THEN [raised |-> TRUE, cause |-> "ValueError", chunks |-> <<>>,
          session |-> db.session, tables |-> db.tables, next_id |-> db.next_id]
    ELSE IF db.contents[document_id] = <<>>
    THEN [raised |-> FALSE, cause |-> "", chunks |-> <<>>,
          session |-> db.session, tables |-> db.tables, next_id |-> db.next_id]
    ELSE IF /\ db.foreign_keys
            /\ EmbeddingsOf(db.session,
                            {c.id : c \in ChunksOf(db.session, document_id)}) # {}
    THEN [raised |-> TRUE, cause |-> "IntegrityError", chunks |-> <<>>,
          session |-> db.session, tables |-> db.tables, next_id |-> db.next_id]
    ELSE Bind([db.session EXCEPT !.chunks = @ \ ChunksOf(db.session, document_id)],
              LAMBDA deleted :
         IF fault = "chunker_raises"
         THEN [raised |-> TRUE, cause |-> "chunker", chunks |-> <<>>,
               session |-> deleted, tables |-> db.tables, next_id |-> db.next_id]
         ELSE Bind(NewChunks(_chunk_text_content(self, db.contents[document_id]),
                             document_id, db.next_id),
                   LAMBDA chunks :
              IF fault = "commit_raises"
              THEN [raised |-> TRUE, cause |-> "commit", chunks |-> <<>>,
                    session |-> db.tables, tables |-> db.tables,
                    next_id |-> db.next_id + Len(chunks)]
              ELSE [raised |-> FALSE, cause |-> "", chunks |-> chunks,
                    session |-> [deleted EXCEPT !.chunks = @ \cup Range(chunks)],
                    tables |-> [deleted EXCEPT !.chunks = @ \cup Range(chunks)],
                    next_id |-> db.next_id + Len(chunks)]))

\* the rows in the order of a query; the ids are random, the model takes the
\* chunks by chunk_index
RECURSIVE Ordered(_)
Ordered(rows) ==
    IF rows = {} THEN <<>>
    ELSE Bind(CHOOSE c \in rows : \A o \in rows : c.chunk_index <= o.chunk_index,
              LAMBDA first : <<first>> \o Ordered(rows \ {first}))

\* f"{document.title}\n\n{chunk_text}" when the document has a title
TextWithTitle(title, chunk_text) ==
    IF title # <<>> THEN title \o <<"\n", "\n">> \o chunk_text ELSE chunk_text

\* the chunks of the loop that still need an embedding
RECURSIVE ChunksToEmbed(_, _, _)
ChunksToEmbed(db, chunks, force_regenerate) ==
    IF chunks = <<>> THEN <<>>
    ELSE (IF ~force_regenerate /\ EmbeddingsOf(db, {Head(chunks).id}) # {}
          THEN <<>> ELSE <<Head(chunks)>>)
         \o ChunksToEmbed(db, Tail(chunks), force_regenerate)

\* the Embedding rows for the chunks, in their order, ids drawn after n
NewEmbeddings(chunks_to_embed, n) ==
    [i \in 1..Len(chunks_to_embed) |->
        [id |-> RowId(n + i), chunk_id |-> chunks_to_embed[i].id]]

\* if (i + 1) % 100 == 0: db.commit()
commit_interval == 100

\* what can go wrong in a call of embed_chunks: the inference, the first
\* commit after the records are added, or the last one
EmbedFaults == {"none", "model_raises", "first_commit_raises", "last_commit_raises"}

CommitFaults == {"first_commit_raises", "last_commit_raises"}

\* the commits of the saving loop over n records: one after every
\* commit_interval records, and the one after the loop
SaveCommits(n) == n \div commit_interval + 1

\* the records that are durable when commit number j of the saving loop
\* raises: those of the commits before it
SavedBefore(records, j) ==
    {records[i] : i \in 1..Min(Len(records), (j - 1) * commit_interval)}

\* a force-refresh that keeps the embeddings it finds
KeepEmbeddings(db, chunk_ids) == db

\* db.query(Embedding).filter(Embedding.chunk_id.in_(chunk_ids)).delete()
DeleteEmbeddings(db, chunk_ids) ==
    [db EXCEPT !.embeddings = @ \ EmbeddingsOf(db, chunk_ids)]

\* what embed_chunks leaves when it returns or raises before the inference
EmbedOutcome(raised, records, session_, tables_, db, self) ==
    [raised |-> raised, records |-> records, session |-> session_, tables |-> tables_,
     next_id |-> db.next_id, self |-> self, submitted |-> {}, encoded |-> <<>>]

\* embed_chunks(db, document_id, force_regenerate) with the embedding
\* service in state self: the rows it returns, the Session, the committed
\* tables and the service it leaves; every exception rolls the Session back
embed_chunks(db, self, document_id, force_regenerate, fault) ==
    IF document_id \notin db.documents
    THEN EmbedOutcome(TRUE, {}, db.tables, db.tables, db, self)
    ELSE Bind(Ordered(ChunksOf(db.session, document_id)), LAMBDA chunks :
         IF chunks = <<>>
         THEN EmbedOutcome(FALSE, {}, db.session, db.tables, db, self)
         ELSE Bind({c.id : c \in Range(chunks)}, LAMBDA ids :
              IF /\ ~force_regenerate
                 /\ Cardinality(EmbeddingsOf(db.session, ids)) = Len(chunks)
              THEN EmbedOutcome(FALSE, EmbeddingsOf(db.session, ids), db.session,
                                db.tables, db, self)
              ELSE Bind(IF force_regenerate
                        THEN DeleteEmbeddings(db.session, ids)
                        ELSE db.session,
                        LAMBDA kept :
                   Bind(IF force_regenerate THEN kept ELSE db.tables,
                        LAMBDA committed :
                   Bind(ChunksToEmbed(kept, chunks, force_regenerate),
                        LAMBDA chunks_to_embed :
                   IF chunks_to_embed = <<>>
                   THEN EmbedOutcome(FALSE, EmbeddingsOf(kept, ids), kept, committed,
                                     db, self)
                   ELSE Bind(generate_embedding_batch(
                                 self,
                                 [i \in 1..Len(chunks_to_embed) |->
                                      TextWithTitle(DocumentTitle[document_id],
                                                    chunks_to_embed[i].text)],
                                 TRUE, TRUE, fault = "model_raises"),
                             LAMBDA r :
                        IF r.raised
                        THEN [raised |-> TRUE, records |-> {}, session |-> committed,
                              tables |-> committed, next_id |-> db.next_id,
                              self |-> r.self,
                              submitted |-> {c.id : c \in Range(chunks_to_embed)},
                              encoded |-> r.encoded]
                        ELSE Bind(NewEmbeddings(chunks_to_embed, db.next_id),
                                  LAMBDA embedding_records :
                             Bind(IF \/ fault = "first_commit_raises"
                                     \/ /\ fault = "last_commit_raises"
                                        /\ SaveCommits(Len(embedding_records)) = 1
                                  THEN committed
                                  ELSE IF fault = "last_commit_raises"
                                  THEN [kept EXCEPT
                                            !.embeddings =
                                                @ \cup SavedBefore(
                                                    embedding_records,
                                                    SaveCommits(Len(embedding_records)))]
                                  ELSE [kept EXCEPT
                                            !.embeddings =
                                                @ \cup Range(embedding_records)],
                                  LAMBDA saved :
                             [raised |-> fault \in CommitFaults,
                              records |-> IF fault \in CommitFaults THEN {}
                                          ELSE Range(embedding_records),
                              session |-> saved, tables |-> saved,
                              next_id |-> db.next_id + Len(chunks_to_embed),
                              self |-> r.self,
                              submitted |-> {c.id : c \in Range(chunks_to_embed)},
                              encoded |-> r.encoded]))))))))

\* one run of chunk_document on the Session
ChunkDocument(document_id, fault) ==
    /\ nOps < MaxIngestOps
    /\ \E r \in {chunk_document(IngestDb, IngestChunker, document_id, fault)} :
        /\ session' = r.session
        /\ tables' = r.tables
        /\ next_id' = r.next_id
        /\ returned' = IF r.raised THEN returned
                       ELSE [returned EXCEPT ![document_id] = @ \cup {Range(r.chunks)}]
        /\ last' = [op |-> "chunk_document", document_id |-> document_id,
                    fault |-> fault, raised |-> r.raised, cause |-> r.cause,
                    chunks |-> Range(r.chunks),
                    content |-> IF document_id \in documents
                                THEN contents[document_id] ELSE <<>>,
                    before |-> ChunksOf(tables, document_id)]
    /\ nOps' = nOps + 1
    /\ UNCHANGED <<cacheVars, written, threadVars, queryObsVars, projects, documents,
                   project_documents, conversations, contents, foreign_keys, status, task>>

\* one call of embed_chunks on the Session
EmbedChunks(document_id, force_regenerate, fault) ==
    /\ nOps < MaxIngestOps
    /\ \E r \in {embed_chunks(IngestDb, Self, document_id, force_regenerate, fault)} :
        /\ session' = r.session
        /\ tables' = r.tables
        /\ next_id' = r.next_id
        /\ in_memory_cache' = r.self.in_memory_cache
        /\ redis_store' = r.self.redis_store
        /\ timers' = r.self.timers
        /\ cache_stats' = r.self.cache_stats
        /\ last' = [op |-> "embed_chunks", document_id |-> document_id,
                    force_regenerate |-> force_regenerate, fault |-> fault,
                    raised |-> r.raised, records |-> r.records,
                    submitted |-> r.submitted, encoded |-> r.encoded,
                    chunks |-> IF document_id \in documents
                               THEN {c.id : c \in ChunksOf(session, document_id)}
                               ELSE {},
                    before |-> tables.embeddings,
                    pending |-> session # tables]
    /\ nOps' = nOps + 1
    /\ UNCHANGED <<cache_backend, redis_up, written, threadVars, queryObsVars, projects,
                   documents, project_documents, conversations, contents, foreign_keys,
                   returned, status, task>>

\* the ingestion task stores the extracted text: doc.content = text; db.commit()
StoreContent(document_id, text) ==
    /\ nOps < MaxIngestOps
    /\ document_id \in documents
    /\ contents' = [contents EXCEPT ![document_id] = text]
    /\ tables' = session
    /\ last' = [op |-> "store_content", document_id |-> document_id]
    /\ nOps' = nOps + 1
    /\ UNCHANGED <<cacheVars, written, threadVars, queryObsVars, projects, documents,
                   project_documents, conversations, session, foreign_keys, next_id,
                   returned, status, task>>

\* get_db: db.close() at the end of the request rolls back what is pending
CloseSession ==
    /\ nOps < MaxIngestOps
    /\ session # tables
    /\ session' = tables
    /\ last' = [op |-> "close"]
    /\ nOps' = nOps + 1
    /\ UNCHANGED <<cacheVars, written, threadVars, queryObsVars, projects, documents,
                   project_documents, conversations, contents, tables, foreign_keys,
                   next_id, returned, status, task>>

IngestTexts == { <<>>, <<"A", ".">> }

IngestNext ==
    \/ \E d \in {D1, D2}, fault \in ChunkFaults : ChunkDocument(d, fault)
    \/ \E d \in {D1, D2}, force \in BOOLEAN, fault \in EmbedFaults :
           EmbedChunks(d, force, fault)
    \/ \E d \in {D1, D2}, t \in IngestTexts : StoreContent(d, t)
    \/ CloseSession
    \/ delete_document(D1)

\* the database may be one that enforces foreign keys
InitIngest ==
    /\ CacheInit /\ cache_backend = "none"
    /\ ObsInit /\ ThreadInit /\ DbRows
    /\ foreign_keys \in BOOLEAN

SpecIngest == InitIngest /\ [][IngestNext]_vars

\* C19: whatever runs of chunk_document were made on a document, the
\* committed chunks of the document are the complete result of one single
\* run, and after a run returns they are exactly the chunks it returned.
C19_CommittedChunksAreOneRun ==
    /\ \A d \in documents : ChunksOf(tables, d) \in returned[d]
    /\ (last.op = "chunk_document" /\ ~last.raised)
           => ChunksOf(tables, last.document_id) = last.chunks

\* what the runs do guarantee: the committed chunks of a document are one
\* run's result or none at all, never part of one or a mixture of two, and a
\* run that returns chunks has committed exactly those
NoPartialChunkSet ==
    /\ \A d \in documents : ChunksOf(tables, d) \in returned[d] \cup {{}}
    /\ (last.op = "chunk_document" /\ ~last.raised /\ last.chunks # {})
           => ChunksOf(tables, last.document_id) = last.chunks

\* C20: after any calls of chunk_document, embed_chunks and delete_document,
\* every stored Embedding refers to a stored Chunk, and no chunk has more
\* than one embedding.
C20_EmbeddingsFollowTheirChunks ==
    /\ \A e \in tables.embeddings : \E c \in tables.chunks : c.id = e.chunk_id
    /\ \A c \in tables.chunks : Cardinality(EmbeddingsOf(tables, {c.id})) <= 1

\* what holds: no chunk has two embeddings, and where the database enforces
\* the foreign key of Embedding.chunk_id every embedding has its chunk
EmbeddingsFollowUnderForeignKeys ==
    /\ foreign_keys => \A e \in tables.embeddings : \E c \in tables.chunks : c.id = e.chunk_id
    /\ \A c \in tables.chunks : Cardinality(EmbeddingsOf(tables, {c.id})) <= 1

\* embed_chunks has returned or raised on a document that exists
Embedded == last.op = "embed_chunks" /\ last.document_id \in documents

\* the embeddings stored before the call
Before == [embeddings |-> last.before]

\* the chunks of the document that had no embedding before the call
Unembedded == {c \in last.chunks : EmbeddingsOf(Before, {c}) = {}}

\* C21: embed_chunks without force_regenerate creates embeddings only for
\* the chunks of the document that have none, and leaves every stored
\* embedding as it was; with force_regenerate the embeddings of the
\* document's chunks are deleted first, and after a successful return every
\* chunk has exactly one embedding, created by this call.
C21_EmbedsOnlyWhatIsMissing ==
    Embedded =>
        /\ ~last.force_regenerate =>
               /\ last.before \subseteq tables.embeddings
               /\ last.submitted \subseteq Unembedded
               /\ ~last.raised =>
                      /\ {e.chunk_id : e \in tables.embeddings \ last.before} = Unembedded
                      /\ last.submitted = Unembedded
                      /\ \A c \in last.chunks :
                             Cardinality(EmbeddingsOf(tables, {c})) = 1
        /\ (last.force_regenerate /\ ~last.raised) =>
               /\ EmbeddingsOf(Before, last.chunks) \cap tables.embeddings = {}
               /\ \A c \in last.chunks :
                      /\ Cardinality(EmbeddingsOf(tables, {c})) = 1
                      /\ EmbeddingsOf(tables, {c}) \cap last.before = {}

\* a call without force_regenerate that embedded the chunks of a document
\* while another document kept its embeddings
C21_Witness ==
    /\ Embedded /\ ~last.force_regenerate /\ ~last.raised
    /\ Unembedded # {}
    /\ last.before # {}
    /\ Cardinality(tables.embeddings \ last.before) = Cardinality(Unembedded)

\* a call with force_regenerate that replaced the embeddings it found
ForceWitness ==
    /\ Embedded /\ last.force_regenerate /\ ~last.raised
    /\ EmbeddingsOf(Before, last.chunks) # {}

\* a call without force_regenerate on a document whose chunks all had their
\* embedding: nothing is submitted to the model
SkipWitness ==
    /\ Embedded /\ ~last.force_regenerate /\ ~last.raised
    /\ last.chunks # {} /\ Unembedded = {} /\ last.submitted = {}

\* C22: when embed_chunks fails partway (the inference or a commit raises),
\* what is committed for the document is no partial set: the new embeddings
\* are whole batches of commit_interval, and the document still has the
\* embeddings it had before the call, also with force_regenerate.
C22_FailureLeavesNoPartialSet ==
    (Embedded /\ last.raised) =>
        /\ Cardinality(tables.embeddings \ last.before) % commit_interval = 0
        /\ EmbeddingsOf(Before, last.chunks) \subseteq tables.embeddings

\* what a failing call does guarantee: without force_regenerate the stored
\* embeddings are exactly those of before; with it, those of other
\* documents are
FailureWithoutForceChangesNothing ==
    (Embedded /\ last.raised) =>
        /\ ~last.force_regenerate => tables.embeddings = last.before
        /\ last.before \ EmbeddingsOf(Before, last.chunks) \subseteq tables.embeddings
        /\ tables.embeddings \subseteq last.before

-----------------------------------------------------------------------------
(* Ingestion of a URL, a PDF or a video: the accepting call and the          *)
(* background task                                                           *)

MaxUploads == 1         \* documents accepted for ingestion in one behaviour

\* a task whose except branch leaves the status as it is
StatusKept(current) == current

\* the status written by the except branch of the task
StatusAfterFailure(current) == "error"

\* what the adapter returns from the thread pool, or that it raised
ExtractionResults ==
    { [raised |-> TRUE, text |-> <<>>] }
    \cup { [raised |-> FALSE, text |-> t] :
               t \in { <<>>, <<"A", ".">>, <<"B", "b", "b", "!">>,
                       <<"A", ".", " ", "A", ".", " ", "A", ".">> } }

\* process_url / process_pdf_upload / process_youtube behind their routes:
\* 404 for a missing project; else the document is committed as "queued",
\* linked to the project, the task is created and the response carries the
\* status of the document
process_url(project_id) ==
    /\ nOps < MaxUploads
    /\ nOps' = nOps + 1
    /\ IF project_id \notin DOMAIN projects
       THEN /\ last' = [op |-> "process_url", status_code |-> 404,
                        document_id |-> PyNone, ack |-> "", from |-> "", to |-> ""]
            /\ UNCHANGED <<documents, project_documents, contents, status, returned,
                           task, stale>>
       ELSE \E doc_id \in {UploadId(nOps + 1)} :
            /\ documents' = documents \cup {doc_id}
            /\ project_documents' = project_documents \cup {<<project_id, doc_id>>}
            /\ contents' = With(contents, doc_id, <<>>)
            /\ status' = With(status, doc_id, "queued")
            /\ returned' = With(returned, doc_id, {{}})
            /\ task' = With(task, doc_id,
                            [pc |-> "start", result |-> [raised |-> FALSE, text |-> <<>>],
                             chunked |-> FALSE, embedded |-> FALSE])
            /\ stale' = stale \cup CachedQueriesOf({project_id})
            /\ last' = [op |-> "process_url", status_code |-> 200,
                        document_id |-> doc_id, ack |-> "queued",
                        from |-> "", to |-> "queued"]
    /\ UNCHANGED <<cacheVars, written, threadVars, computed_for, projects, conversations,
                   tables, session, foreign_keys, next_id>>

\* the task up to its await: status "processing", committed, if the document
\* is still there
TaskStart(doc_id) ==
    /\ doc_id \in DOMAIN task
    /\ task[doc_id].pc = "start"
    /\ task' = [task EXCEPT ![doc_id].pc = "extract"]
    /\ status' = IF doc_id \in documents
                 THEN [status EXCEPT ![doc_id] = "processing"] ELSE status
    /\ last' = [op |-> "task_start", document_id |-> doc_id,
                from |-> status[doc_id], to |-> status'[doc_id]]
    /\ UNCHANGED <<cacheVars, written, nOps, threadVars, queryObsVars, projects, documents,
                   project_documents, conversations, contents, tables, session,
                   foreign_keys, next_id, returned>>

\* the adapter returns or raises in the thread pool
ExtractionDone(doc_id, result) ==
    /\ doc_id \in DOMAIN task
    /\ task[doc_id].pc = "extract"
    /\ task' = [task EXCEPT ![doc_id].pc = "resume", ![doc_id].result = result]
    /\ last' = [op |-> "extracted", document_id |-> doc_id,
                from |-> status[doc_id], to |-> status[doc_id]]
    /\ UNCHANGED <<cacheVars, written, nOps, threadVars, queryObsVars, projects, documents,
                   project_documents, conversations, contents, tables, session,
                   foreign_keys, next_id, returned, status>>

\* what the task leaves when it ends without having called the services
TaskEnds(doc_id, to) ==
    /\ task' = [task EXCEPT ![doc_id].pc = "done"]
    /\ status' = [status EXCEPT ![doc_id] = to]
    /\ last' = [op |-> "task_end", document_id |-> doc_id,
                from |-> status[doc_id], to |-> to]
    /\ UNCHANGED <<cacheVars, contents, tables, session, next_id, returned>>

\* the task from its await to its end, one step of the event loop: the
\* except branch after a failed extraction; else content and status "ready"
\* are committed, then chunk_document and embed_chunks run, and what they
\* raise is logged
TaskResume(doc_id, chunk_fault, embed_fault) ==
    /\ doc_id \in DOMAIN task
    /\ task[doc_id].pc = "resume"
    /\ IF doc_id \notin documents
       THEN TaskEnds(doc_id, status[doc_id])
       ELSE IF task[doc_id].result.raised
       THEN TaskEnds(doc_id, StatusAfterFailure(status[doc_id]))
       ELSE /\ last' = [op |-> "task_end", document_id |-> doc_id,
                        from |-> status[doc_id], to |-> "ready"]
            /\ \E stored \in {[IngestDb EXCEPT
                                       !.contents = [contents EXCEPT
                                                         ![doc_id] = task[doc_id].result.text]]} :
                \E c \in {chunk_document(stored, IngestChunker, doc_id, chunk_fault)} :
                \E e \in {IF c.raised
                          THEN EmbedOutcome(TRUE, {}, c.tables, c.tables,
                                            [next_id |-> c.next_id], Self)
                          ELSE embed_chunks([stored EXCEPT !.session = c.session,
                                                           !.tables = c.tables,
                                                           !.next_id = c.next_id],
                                            Self, doc_id, FALSE, embed_fault)} :
                /\ contents' = stored.contents
                /\ status' = [status EXCEPT ![doc_id] = "ready"]
                /\ tables' = e.tables
                /\ session' = e.tables
                /\ next_id' = e.next_id
                /\ returned' = IF c.raised THEN returned
                               ELSE [returned EXCEPT ![doc_id] = @ \cup {Range(c.chunks)}]
                /\ in_memory_cache' = e.self.in_memory_cache
                /\ redis_store' = e.self.redis_store
                /\ timers' = e.self.timers
                /\ cache_stats' = e.self.cache_stats
                /\ task' = [task EXCEPT ![doc_id].pc = "done",
                                        ![doc_id].chunked = ~c.raised,
                                        ![doc_id].embedded = ~c.raised /\ ~e.raised]
                /\ UNCHANGED <<cache_backend, redis_up>>
    /\ UNCHANGED <<written, nOps, threadVars, queryObsVars, projects, documents,
                   project_documents, conversations, foreign_keys>>

\* the ids the accepted documents get
Uploads == {UploadId(n) : n \in 1..MaxUploads}

PipelineNext ==
    \/ \E p \in {P1, P3} : process_url(p)
    \/ \E d \in Uploads : TaskStart(d)
    \/ \E d \in Uploads, r \in ExtractionResults : ExtractionDone(d, r)
    \/ \E d \in Uploads, cf \in {"none", "chunker_raises"},
          ef \in {"none", "model_raises"} : TaskResume(d, cf, ef)
    \/ delete_document(UploadId(1))

InitPipeline ==
    /\ CacheInit /\ cache_backend = "none"
    /\ ObsInit /\ ThreadInit /\ DbInit

SpecPipeline == InitPipeline /\ [][PipelineNext]_vars

\* the next step of the task of one document
TaskStep(d) ==
    \/ TaskStart(d)
    \/ \E r \in ExtractionResults : ExtractionDone(d, r)
    \/ \E cf \in {"none", "chunker_raises"}, ef \in {"none", "model_raises"} :
           TaskResume(d, cf, ef)

\* the steps of a task are taken whenever they can be: the event loop runs
\* every task it holds, and the adapters return or raise (the URL request
\* has a timeout)
FairPipeline == SpecPipeline /\ \A d \in Uploads : WF_vars(TaskStep(d))

\* the documents that went through the ingestion task and still exist
Ingested == DOMAIN task \cap documents

StatusMoves ==
    { <<"", "queued">>, <<"queued", "processing">>,
      <<"processing", "ready">>, <<"processing", "error">> }

\* the latest step left the status alone or moved it along the allowed path
StatusMovesForward ==
    last.op \in {"process_url", "task_start", "extracted", "task_end"}
        => (last.from = last.to \/ <<last.from, last.to>> \in StatusMoves)

\* C23: a document is "ready" only after chunk_document and embed_chunks have
\* completed successfully for it, and its status moves only along
\* queued -> processing -> ready or error.
C23_ReadyOnlyAfterChunkingAndEmbedding ==
    /\ \A d \in Ingested :
           status[d] = "ready" => task[d].chunked /\ task[d].embedded
    /\ StatusMovesForward

\* what the task does guarantee of a document that is "ready": its text was
\* extracted and stored
ReadyMeansExtracted ==
    \A d \in Ingested :
        status[d] = "ready"
            => /\ task[d].pc = "done"
               /\ ~task[d].result.raised
               /\ contents[d] = task[d].result.text

Final(d) == d \notin documents \/ status[d] \in {"ready", "error"}

\* C30: a document accepted for ingestion is acknowledged as "queued", and
\* unless it is deleted it eventually is "ready" or "error" and stays so,
\* whether extraction, chunking or embedding succeeds or raises.
C30_IngestionEnds ==
    /\ [](last.op = "process_url" /\ last.status_code = 200
              => last.ack = "queued" /\ status[last.document_id] = "queued")
    /\ \A d \in Uploads : (d \in DOMAIN task) ~> [](Final(d))

\* an accepted document ended as "ready" although embedding raised
C30_Witness ==
    \E d \in Ingested :
        /\ task[d].pc = "done" /\ status[d] = "ready"
        /\ task[d].chunked /\ ~task[d].embedded

\* an accepted document whose extraction raised ended as "error"
ErrorWitness ==
    \E d \in Ingested :
        /\ task[d].pc = "done" /\ status[d] = "error" /\ task[d].result.raised

-----------------------------------------------------------------------------
(* Conversations: what is folded into the query and what is appended *)

MaxExchanges == 7       \* questions asked in one conversation

\* a question in conversation V1
AskInConversation(q, env, ties) ==
    /\ nOps < MaxExchanges
    /\ \E request \in {QueryRequest(q, NoProject, Project(V1), 1, 7, 512, TRUE)} :
       \E h \in {post_query(RouterDb, Self, request, env, ties)} :
           RouterReturned(request, env, ties, h)

ConversationNext ==
    \E env \in RouterEnvironments, ties \in TieOrders :
        AskInConversation(<<"a">>, env, ties)

SpecConversation == InitRouter /\ [][ConversationNext]_vars

\* the latest request went through query_with_conversation
ConversationQueried ==
    /\ last.op = "post_query" /\ last.called
    /\ IsSet(last.request.conversation_id) \/ IsSet(last.request.project_id)

\* the conversation of the latest request, and its messages before and after
ConversationOfLast ==
    IF IsSet(last.request.conversation_id) THEN last.request.conversation_id.id
    ELSE uuid4(DOMAIN last.before)

PriorMessages ==
    IF ConversationOfLast \in DOMAIN last.before
    THEN last.before[ConversationOfLast].messages ELSE <<>>

MessagesNow == conversations[ConversationOfLast].messages

\* who said what
Said(messages) == [i \in 1..Len(messages) |-> <<messages[i].role, messages[i].text>>]

\* the user message with the query as sent, then the assistant message with
\* the answer
Exchange ==
    << <<"user", last.request.query>>,
       <<"assistant", TextOf(dict_get(last.response, "answer", PyNone))>> >>

\* what is appended: one user and one assistant message after an answer,
\* nothing when query() raised
ExchangeIsAppended ==
    ConversationQueried
        => Said(MessagesNow) = Said(PriorMessages) \o (IF last.raised THEN <<>> ELSE Exchange)

\* C24: query_with_conversation folds the latest max_messages prior messages
\* into the query oldest first, appends one user message with the original
\* query and then one assistant message with the answer, and appends
\* nothing when query() raises.
C24_FoldsLatestMessagesOldestFirst ==
    /\ ExchangeIsAppended
    /\ ConversationQueried
           => last.req.query
                  = EnhancedQuery(ContextOf(LastN(PriorMessages, max_messages)),
                                  last.request.query)

\* the two messages of every exchange in each other's place
PairsSwapped(messages) ==
    [i \in 1..Len(messages) |->
        IF i % 2 = 1 /\ i + 1 <= Len(messages) THEN messages[i + 1]
        ELSE IF i % 2 = 0 THEN messages[i - 1]
        ELSE messages[i]]

\* what is folded: the latest max_messages messages, the exchanges oldest
\* first, the two messages of an exchange in either order
FoldsLatestExchanges ==
    ConversationQueried
        => \E recent \in {LastN(PriorMessages, max_messages),
                           PairsSwapped(LastN(PriorMessages, max_messages))} :
               last.req.query = EnhancedQuery(ContextOf(recent), last.request.query)

\* a question was answered after the latest exchange was folded into it with
\* the answer before its question
FoldedWitness ==
    /\ ConversationQueried /\ ~last.raised
    /\ Len(PriorMessages) >= 2
    /\ Len(MessagesNow) = Len(PriorMessages) + 2
    /\ last.req.query
           = EnhancedQuery(ContextOf(PairsSwapped(LastN(PriorMessages, max_messages))),
                           last.request.query)

\* a question was asked when the conversation held more than max_messages
\* messages
LimitWitness ==
    /\ ConversationQueried /\ ~last.raised
    /\ Len(PriorMessages) > max_messages

-----------------------------------------------------------------------------
(* Reranking as a function of the candidates *)

MaxCandidates == 3      \* candidates handed to the reranker

\* chunks as the search returns them: terms and length of the text, and the
\* similarity in hundredths
CandidatePool ==
    { [chunk_id |-> "k1", document_id |-> D1, document_title |-> "t1",
       terms |-> {"a"}, length |-> 50, score |-> 90],
      [chunk_id |-> "k2", document_id |-> D1, document_title |-> "t1",
       terms |-> {"x"}, length |-> 500, score |-> 60],
      [chunk_id |-> "k3", document_id |-> D2, document_title |-> "t2",
       terms |-> {"a", "x"}, length |-> 2000, score |-> 60],
      [chunk_id |-> "k4", document_id |-> D2, document_title |-> "t2",
       terms |-> {}, length |-> 100, score |-> 55] }

\* what search_similar_chunks can return: distinct chunks, best first
CandidateLists ==
    { cs \in SeqsUpTo(CandidatePool, MaxCandidates) :
          /\ \A i, j \in 1..Len(cs) : i < j => cs[i] # cs[j] /\ cs[i].score >= cs[j].score }

RerankQueries ==
    { <<>>, <<" ">>, <<"a">>, <<"a", " ", "x">>, <<"a", " ", "b", " ", "x">> }

RerankCounts == {-1, 0, 1, 2, 4}

RerankInputs ==
    { [op |-> "input", enabled |-> e, query |-> q, candidates |-> cs, top_k |-> k] :
          e \in BOOLEAN, q \in RerankQueries, cs \in CandidateLists, k \in RerankCounts }

\* the end of _retrieve_chunks is run on the candidates
CallRerank ==
    /\ last.op = "input"
    /\ last' = [op |-> "rerank", enabled |-> last.enabled, query |-> last.query,
                candidates |-> last.candidates, top_k |-> last.top_k,
                chunks |-> RerankOrSlice(last.enabled, last.query, last.candidates,
                                         last.top_k)]
    /\ nOps' = nOps + 1
    /\ UNCHANGED <<cacheVars, written, nonCacheVars>>

InitRerank ==
    /\ CacheInit /\ cache_backend = "none"
    /\ written = EmptyMap /\ nOps = 0
    /\ last \in RerankInputs
    /\ ThreadInit /\ DbInit

SpecRerank == InitRerank /\ [][CallRerank]_vars

\* the share of the query's words found in the chunk, the preference for a
\* text of 100 to 1000 characters, and the weighted sum, in thousandths
ExpectedKeyword(question, chunk) ==
    IF QueryTerms(question) = {} THEN 0
    ELSE (100 * Cardinality(QueryTerms(question) \cap chunk.terms))
             \div Cardinality(QueryTerms(question))

ExpectedLength(chunk) ==
    IF chunk.length < 100 THEN 50 ELSE IF chunk.length > 1000 THEN 80 ELSE 100

ExpectedScore(question, chunk) ==
    7 * chunk.score + 2 * ExpectedKeyword(question, chunk) + 1 * ExpectedLength(chunk)

\* the chunk without the score the reranker adds
AsCandidate(chunk) ==
    [chunk_id |-> chunk.chunk_id, document_id |-> chunk.document_id,
     document_title |-> chunk.document_title, terms |-> chunk.terms,
     length |-> chunk.length, score |-> chunk.score]

\* the result is the best min(top_k, candidates) of the candidates, best
\* first: by the weighted sum when reranking is on, by similarity when off
BestOfCandidates ==
    LET chosen == [i \in 1..Len(last.chunks) |-> AsCandidate(last.chunks[i])]
        Rank(c) == IF last.enabled THEN ExpectedScore(last.query, c) ELSE c.score
    IN  /\ Len(last.chunks) = Min(last.top_k, Len(last.candidates))
        /\ Range(chosen) \subseteq Range(last.candidates)
        /\ \A i, j \in 1..Len(chosen) : i < j => chosen[i] # chosen[j]
        /\ last.enabled
               => \A i \in 1..Len(chosen) :
                      last.chunks[i].rerank_score = ExpectedScore(last.query, chosen[i])
        /\ \A i, j \in 1..Len(chosen) : i < j => Rank(chosen[i]) >= Rank(chosen[j])
        /\ \A c \in Range(last.candidates) \ Range(chosen) :
               \A i \in 1..Len(chosen) : Rank(chosen[i]) >= Rank(c)

\* C25: with reranking on, _rerank_chunks returns min(top_k, candidates)
\* chunks of the candidate list in descending order of alpha * vector +
\* beta * keyword + gamma * length; with reranking off, the top_k candidates
\* of highest similarity.
C25_RerankKeepsTheBest ==
    last.op = "rerank" => BestOfCandidates

\* the same for the counts a validated request can carry
RerankKeepsTheBestForCounts ==
    (last.op = "rerank" /\ last.top_k >= 0) => BestOfCandidates

\* reranking changed the order: the second candidate by similarity came first
RerankWitness ==
    /\ last.op = "rerank" /\ last.enabled /\ last.top_k >= 1
    /\ Len(last.candidates) >= 2
    /\ last.chunks[1].chunk_id = last.candidates[2].chunk_id

-----------------------------------------------------------------------------
(* Chunk size and the sentences of the chunks *)

\* the text chunker has returned
TextChunked == last.op = "_chunk_text_content"

\* a chunk is within chunk_size or is one sentence, and a sentence above
\* chunk_size is a chunk
SizeRespected ==
    /\ \A i \in 1..Len(last.chunks) :
           \/ Len(last.chunks[i].text) <= last.self.chunk_size
           \/ last.chunks[i].text \in Range(last.sentences)
    /\ \A j \in 1..Len(last.sentences) :
           Len(last.sentences[j]) > last.self.chunk_size
               => \E i \in 1..Len(last.chunks) : last.chunks[i].text = last.sentences[j]

\* C26: every chunk of _chunk_text_content has text length at most chunk_size
\* unless it is exactly one sentence, and a sentence longer than chunk_size
\* is a chunk of its own, with overlap enabled too.
C26_ChunksWithinSizeOrOneSentence ==
    TextChunked => SizeRespected

\* what holds with the overlap: a chunk above chunk_size is one sentence, or
\* the sentence carried over from the chunk before and the one after it
OversizeChunkIsOverlapPlusOne ==
    TextChunked =>
        \A i \in 1..Len(last.chunks) :
            \/ Len(last.chunks[i].text) <= last.self.chunk_size
            \/ last.chunks[i].text \in Range(last.sentences)
            \/ /\ i > 1
               /\ \E j \in 1..(Len(last.sentences) - 1) :
                      last.chunks[i].text =
                          last.sentences[j] \o <<" ">> \o last.sentences[j + 1]

\* chunk i is the sentences first[i] .. LastOf(first, i), joined by blanks
LastOf(first, i) ==
    LET fits == { b \in first[i]..Len(last.sentences) :
                      last.chunks[i].text =
                          Join(SubSeq(last.sentences, first[i], b), <<" ">>) }
    IN  IF fits = {} THEN 0 ELSE CHOOSE b \in fits : TRUE

\* the chunks are runs of whole sentences that start with the first sentence,
\* end with the last, and follow each other: each run starts right after the
\* run before it, or with that run's last sentence; no sentence is in more
\* than two runs
SentencesInOrder(first) ==
    LET k == Len(last.chunks)
        n == Len(last.sentences)
    IN  /\ \A i \in 1..k : LastOf(first, i) >= first[i]
        /\ k = 0 => n = 0
        /\ k > 0 => first[1] = 1 /\ LastOf(first, k) = n
        /\ \A i \in 1..(k - 1) :
               first[i + 1] \in {LastOf(first, i), LastOf(first, i) + 1}
        /\ \A j \in 1..n :
               Cardinality({ i \in 1..k : first[i] <= j /\ j <= LastOf(first, i) }) <= 2

\* C29: for a non-empty text every sentence of _split_sentences is whole in
\* at least one chunk of _chunk_text_content, the chunks list the sentences
\* in their order, and a sentence is in at most two chunks, the second time
\* as the first sentence of the chunk that follows.
C29_EverySentenceWholeAndInOrder ==
    (TextChunked /\ last.text # <<>>)
        => \E first \in [1..Len(last.chunks) -> 1..Len(last.sentences)] :
               SentencesInOrder(first)

\* three different sentences, the second closing one chunk and opening the next
C29_Witness ==
    /\ TextChunked /\ Len(last.sentences) = 3 /\ Len(last.chunks) = 2
    /\ last.sentences[1] # last.sentences[2] /\ last.sentences[2] # last.sentences[3]
    /\ last.chunks[1].text = last.sentences[1] \o <<" ">> \o last.sentences[2]
    /\ last.chunks[2].text = last.sentences[2] \o <<" ">> \o last.sentences[3]

-----------------------------------------------------------------------------
(* The placeholder answer and the query-result cache *)

\* query returned the placeholder answer of a retrieval that found no chunk
PlaceholderAnswered ==
    last.op = "query" /\ ~last.hit /\ ~last.raised /\ last.response = NoRelevantInformation

\* the same for a request that uses the cache
PlaceholderAfterMiss == PlaceholderAnswered /\ last.request.use_cache

\* the request is the one that got the placeholder answer before
AskedAgain == last.op = "query" /\ last.key \in last.unanswered

\* C28: query() never writes the placeholder answer to the query-result
\* cache: after a request that found no chunk, the next identical request
\* retrieves again and finds what was linked in between.
C28_PlaceholderIsNeverCached ==
    /\ PlaceholderAfterMiss
           => "cache_write" \notin Range(last.steps) /\ last.key \notin DOMAIN Store
    /\ AskedAgain
           => /\ ~last.hit /\ ~last.present
              /\ "retrieve" \in Range(last.steps)
              /\ last.raised \/ PlaceholderAnswered \/ last.chunks_used > 0

\* the placeholder, then a document linked to the project, then the same
\* request answered from the new document
C28_Witness ==
    /\ AskedAgain /\ last.request.use_cache /\ ~last.hit /\ last.chunks_used > 0
    /\ "cache_write" \in Range(last.steps)

====
